---------------------------- MODULE Spec2Model ----------------------------
(***************************************************************************)
(* Samsung NASA protocol sniffer: the byte-stream reassembler, the packet  *)
(* decoder and the live WebSocket session, modelled from the JavaScript    *)
(* sources.  Buffers are sequences of bytes (0..255); JavaScript index i   *)
(* is sequence index i + 1.  Numbers that go through JavaScript's bitwise  *)
(* operators are signed 32-bit integers, as in the language.               *)
(***************************************************************************)
EXTENDS Integers, Sequences, FiniteSets, TLC

\* ------------------------------------------------------------------------
\* Program constants
\* ------------------------------------------------------------------------

NASA_START_BYTE == 50

NASA_END_BYTE == 52

\* Packet.decode's accepted frame lengths.
MinFrameLen == 16

MaxFrameLen == 1500

\* WebSocketServer.maxHistory
maxHistory == 1000

\* What data[i] yields for an index outside the buffer (JavaScript's
\* undefined); every byte is in 0..255, so -1 is no byte.
JsUndefined == -1

\* ------------------------------------------------------------------------
\* JavaScript 32-bit integer arithmetic
\* ------------------------------------------------------------------------

Two30 == 1073741824

\* ToInt32 of a value read from a buffer: undefined converts to 0.
ToInt32(v) == IF v = JsUndefined THEN 0 ELSE v

\* Bit b (0..30) of the two's-complement pattern of x.
Bit(x, b) == (x \div (2 ^ b)) % 2

FlipBit(x, b) == IF Bit(x, b) = 1 THEN x - 2 ^ b ELSE x + 2 ^ b

\* x << n on a signed 32-bit x, 0 <= n <= 30: the bits above 31 - n are lost
\* and bit 31 - n becomes the sign.
Shl(x, n) ==
  IF n = 0 THEN x
  ELSE IF Bit(x, 31 - n) = 1
    THEN (x % (2 ^ (31 - n))) * (2 ^ n) - Two30 - Two30
    ELSE (x % (2 ^ (31 - n))) * (2 ^ n)

Shl1(x) == Shl(x, 1)

\* x ^ m, x | m and x & m for a signed 32-bit x and 0 <= m < 2^31, bit by
\* bit from bit b of x against the low bit of m.  (x \notin Int is never
\* true: here and below, such a test on the running value of a loop makes
\* TLC evaluate it at each iteration instead of nesting the iterations.)
RECURSIVE XorFrom(_, _, _)
XorFrom(x, m, b) ==
  IF x \notin Int \/ m = 0 THEN x
  ELSE XorFrom(IF m % 2 = 1 THEN FlipBit(x, b) ELSE x, m \div 2, b + 1)

BitXor(x, m) == XorFrom(x, m, 0)

RECURSIVE OrFrom(_, _, _)
OrFrom(x, m, b) ==
  IF x \notin Int \/ m = 0 THEN x
  ELSE OrFrom(IF m % 2 = 1 /\ Bit(x, b) = 0 THEN x + 2 ^ b ELSE x,
              m \div 2, b + 1)

BitOr(x, m) == OrFrom(x, m, 0)

RECURSIVE AndFrom(_, _, _)
AndFrom(x, m, b) ==
  IF m = 0 THEN 0
  ELSE (IF m % 2 = 1 /\ Bit(x, b) = 1 THEN 2 ^ b ELSE 0)
       + AndFrom(x, m \div 2, b + 1)

BitAnd(x, m) == AndFrom(x, m, 0)

\* ------------------------------------------------------------------------
\* Buffers
\* ------------------------------------------------------------------------

\* data[i]
At(data, i) == IF i >= 0 /\ i < Len(data) THEN data[i + 1] ELSE JsUndefined

\* buffer.slice(from) and buffer.slice(0, to), for 0 <= from, to
SliceFrom(buf, from) ==
  IF from >= Len(buf) THEN <<>> ELSE SubSeq(buf, from + 1, Len(buf))

SliceTo(buf, to) == SubSeq(buf, 1, IF to > Len(buf) THEN Len(buf) ELSE to)

\* buffer.indexOf(byte, from): the first index >= from holding byte, or -1
RECURSIVE IndexOf(_, _, _)
IndexOf(buf, byte, from) ==
  IF from >= Len(buf) THEN -1
  ELSE IF buf[from + 1] = byte THEN from
  ELSE IndexOf(buf, byte, from + 1)

\* ------------------------------------------------------------------------
\* crc16 (packet-decoder.js)
\* ------------------------------------------------------------------------

\* crc ^ 0x1021: 0x1021 is bits 12, 5 and 0.
XorPoly(crc) == FlipBit(FlipBit(FlipBit(crc, 12), 5), 0)

\* The inner loop: eight times, shift left and xor the polynomial in when
\* bit 15 was set.
RECURSIVE Crc16Bits(_, _)
Crc16Bits(crc, i) ==
  IF crc \notin Int \/ i = 8 THEN crc
  ELSE Crc16Bits(IF Bit(crc, 15) = 1 THEN XorPoly(Shl1(crc)) ELSE Shl1(crc),
                 i + 1)

\* The loop's body for one byte: crc ^ (data[index] << 8) is the byte xored in
\* from bit 8 up, then the eight shifts.
Crc16Byte(crc, byte) == Crc16Bits(XorFrom(crc, ToInt32(byte), 8), 0)

\* The loop over the bytes index .. end - 1, first half then second half (so
\* that a 1500-byte frame does not nest 1500 evaluations).  crc is a signed
\* 32-bit integer, only cut to 16 bits on return.
RECURSIVE Crc16Loop(_, _, _, _)
Crc16Loop(data, index, end, crc) ==
  IF crc \notin Int \/ index >= end THEN crc
  ELSE IF index + 1 = end THEN Crc16Byte(crc, At(data, index))
  ELSE Crc16Loop(data, (index + end) \div 2, end,
                 Crc16Loop(data, index, (index + end) \div 2, crc))

crc16(data, startIndex, length) ==
  BitAnd(Crc16Loop(data, startIndex, startIndex + length, 0), 65535)


\* ------------------------------------------------------------------------
\* Address, Command, MessageSet (packet-decoder.js)
\* ------------------------------------------------------------------------

\* new Address(): klass = AddressClass.Undefined (0xff)
NewAddress == [klass |-> 255, channel |-> 0, address |-> 0]

AddressDecode(data, index) ==
  [klass   |-> At(data, index),
   channel |-> At(data, index + 1),
   address |-> At(data, index + 2)]

AddressEncode(address) == <<address.klass, address.channel, address.address>>

NewCommand ==
  [packetInformation |-> TRUE, protocolVersion |-> 2, retryCount |-> 0,
   packetType |-> 0, dataType |-> 0, packetNumber |-> 0]

CommandDecode(data, index) ==
  [packetInformation |-> (BitAnd(ToInt32(At(data, index)), 128) \div 128) = 1,
   protocolVersion   |-> BitAnd(ToInt32(At(data, index)), 96) \div 32,
   retryCount        |-> BitAnd(ToInt32(At(data, index)), 24) \div 8,
   packetType        |-> BitAnd(ToInt32(At(data, index + 1)), 240) \div 16,
   dataType          |-> BitAnd(ToInt32(At(data, index + 1)), 15),
   packetNumber      |-> At(data, index + 2)]

\* The retry count two bits too low: it lands on the packet-information and
\* protocol-version bits' neighbours.
CommandEncodeRetryUnshifted(command) ==
  <<Shl(IF command.packetInformation THEN 1 ELSE 0, 7)
      + Shl(command.protocolVersion, 5) + Shl(command.retryCount, 1),
    Shl(command.packetType, 4) + command.dataType,
    command.packetNumber>>

CommandEncode(command) ==
  <<Shl(IF command.packetInformation THEN 1 ELSE 0, 7)
      + Shl(command.protocolVersion, 5) + Shl(command.retryCount, 3),
    Shl(command.packetType, 4) + command.dataType,
    command.packetNumber>>

\* MessageSetType
MsgEnum == 0

MsgVariable == 1

MsgLongVariable == 2

MsgStructure == 3

\* (a << 8) | b on two values read from the buffer
Word(a, b) == BitOr(Shl(ToInt32(a), 8), ToInt32(b))

\* The constructor's type: (messageNumber & 0x0600) >> 9
MessageSetTypeOf(messageNumber) == BitAnd(messageNumber, 1536) \div 512

\* The switch of MessageSet.decode on the set's type.  A byte read past the
\* end of the buffer is undefined: it is 0 under << and | and stays undefined
\* as an Enum's value.
MessageSetOfType(data, index, messageNumber, type) ==
  CASE type = MsgEnum ->
         [messageNumber |-> messageNumber, type |-> type,
          value |-> At(data, index + 2), size |-> 3]
    [] type = MsgVariable ->
         [messageNumber |-> messageNumber, type |-> type,
          value |-> Word(At(data, index + 2), At(data, index + 3)),
          size |-> 4]
    [] type = MsgLongVariable ->
         [messageNumber |-> messageNumber, type |-> type,
          value |-> BitOr(BitOr(BitOr(Shl(ToInt32(At(data, index + 2)), 24),
                                      Shl(ToInt32(At(data, index + 3)), 16)),
                                Shl(ToInt32(At(data, index + 4)), 8)),
                          ToInt32(At(data, index + 5))),
          size |-> 6]
    [] OTHER ->
         [messageNumber |-> messageNumber, type |-> type,
          value |-> 0, size |-> Len(data) - index - 3]

NewMessageSet(data, index, messageNumber) ==
  MessageSetOfType(data, index, messageNumber, MessageSetTypeOf(messageNumber))

\* MessageSet.decode(data, index, capacity); capacity is not used by the code.
MessageSetDecode(data, index) ==
  NewMessageSet(data, index, Word(At(data, index), At(data, index + 1)))

\* MessageNumberNames: the message numbers whose name includes "temp"
\* (0x4201, 0x4203, 0x4205, 0x4206, 0x4235, 0x4237, 0x4247) and "power"
\* (0x4000, 0x4065).
NamesWithTemp == {16897, 16899, 16901, 16902, 16949, 16951, 16967}

NamesWithPower == {16384, 16485}

\* A readable value is a text and, where the text goes with a number, the
\* number: its sign, its integer part (signed) and its first decimal.
\* "-1.0°C" is text "°C", negative, whole -1, tenth 0.
Readable(text, negative, whole, tenth) ==
  [text |-> text, negative |-> negative, whole |-> whole, tenth |-> tenth]

\* The decimal of value / 10 and its integer part, rounded towards zero.
Tenth(value) == IF value < 0 THEN (10 - (value % 10)) % 10 ELSE value % 10

Whole(value) ==
  IF value < 0 THEN (value + Tenth(value)) \div 10 ELSE value \div 10

\* `${(value / 10.0).toFixed(1)}°C`; undefined / 10 is NaN.
Celsius(value) ==
  IF value = JsUndefined THEN Readable("NaN°C", FALSE, 0, 0)
  ELSE Readable("°C", value < 0, Whole(value), Tenth(value))

\* names[value] || `Unknown(${value})`
NameOrUnknown(names, value) ==
  IF value \in 0..(Len(names) - 1) THEN Readable(names[value + 1], FALSE, 0, 0)
  ELSE IF value = JsUndefined THEN Readable("Unknown(undefined)", FALSE, 0, 0)
  ELSE Readable("Unknown", value < 0, value, 0)

\* value.toString(); on undefined it throws.
ValueToString(value) ==
  IF value = JsUndefined THEN Readable("TypeError", FALSE, 0, 0)
  ELSE Readable("", value < 0, value, 0)

getReadableValue(message) ==
  IF message.messageNumber \in NamesWithTemp THEN Celsius(message.value)
  ELSE IF message.messageNumber \in NamesWithPower
    THEN Readable(IF message.value \notin {0, JsUndefined} THEN "ON" ELSE "OFF",
                  FALSE, 0, 0)
  ELSE IF message.messageNumber = 16385
    THEN NameOrUnknown(<<"Auto", "Cool", "Dry", "Fan", "Heat">>, message.value)
  ELSE IF message.messageNumber \in {16390, 16391}
    THEN NameOrUnknown(<<"Auto", "Low", "Mid", "High", "Turbo">>,
                       message.value)
  ELSE ValueToString(message.value)

\* ------------------------------------------------------------------------
\* Packet.decode (packet-decoder.js)
\* ------------------------------------------------------------------------

\* The loop over the capacity records: the messages and the final cursor.
\* (Len(acc) >= 0 is always true and makes TLC evaluate acc at each step.)
RECURSIVE DecodeMessages(_, _, _, _, _)
PushMessage(data, cursor, i, capacity, acc, message) ==
  DecodeMessages(data, cursor + message.size, i + 1, capacity,
                 Append(acc, message))

DecodeMessages(data, cursor, i, capacity, acc) ==
  IF Len(acc) >= 0 /\ i < capacity
    THEN PushMessage(data, cursor, i, capacity, acc,
                     MessageSetDecode(data, cursor))
    ELSE [messages |-> acc, cursor |-> cursor]

\* The object a failed decode leaves behind: rawData and timestamp are set,
\* the rest is as constructed.
FailedDecode(data, now, error, crcExpected, crcActual) ==
  [success |-> FALSE, error |-> error,
   crcExpected |-> crcExpected, crcActual |-> crcActual, cursor |-> 0,
   packet |-> [sa |-> NewAddress, da |-> NewAddress, command |-> NewCommand,
               messages |-> <<>>, rawData |-> data, timestamp |-> now]]

\* Packet.decode from "let cursor = 3" on.
DecodeFields(data, now, crcExpected, crcActual, loop) ==
  [success |-> TRUE, error |-> "",
   crcExpected |-> crcExpected, crcActual |-> crcActual,
   cursor |-> loop.cursor,
   packet |-> [sa |-> AddressDecode(data, 3),
               da |-> AddressDecode(data, 6),
               command |-> CommandDecode(data, 9),
               messages |-> loop.messages,
               rawData |-> data, timestamp |-> now]]

\* The CRC check left out.
CheckCrcSkipped(data, now, crcExpected, crcActual) ==
  DecodeFields(data, now, crcExpected, crcActual,
               DecodeMessages(data, 13, 0, At(data, 12), <<>>))

\* The two CRCs change places in the error.
CheckCrcSwapped(data, now, crcExpected, crcActual) ==
  IF crcExpected # crcActual
    THEN FailedDecode(data, now, "CRC error", crcActual, crcExpected)
    ELSE DecodeFields(data, now, crcExpected, crcActual,
                      DecodeMessages(data, 13, 0, At(data, 12), <<>>))

\* The CRC check.
CheckCrc(data, now, crcExpected, crcActual) ==
  IF crcExpected # crcActual
    THEN FailedDecode(data, now, "CRC error", crcExpected, crcActual)
    ELSE DecodeFields(data, now, crcExpected, crcActual,
                      DecodeMessages(data, 13, 0, At(data, 12), <<>>))

\* The checks that follow the size check; size is (data[1] << 8) | data[2].
CheckFrame(data, now, size) ==
  IF size + 2 # Len(data)
    THEN FailedDecode(data, now, "Size mismatch", 0, 0)
  ELSE IF At(data, Len(data) - 1) # NASA_END_BYTE
    THEN FailedDecode(data, now, "Invalid end byte", 0, 0)
  ELSE CheckCrc(data, now,
                Word(At(data, Len(data) - 3), At(data, Len(data) - 2)),
                crc16(data, 3, size - 4))

\* The length check takes the minimum length itself for too short.
PacketDecodeAboveMinimum(data, now) ==
  IF At(data, 0) # NASA_START_BYTE
    THEN FailedDecode(data, now, "Invalid start byte", 0, 0)
  ELSE IF Len(data) <= MinFrameLen \/ Len(data) > MaxFrameLen
    THEN FailedDecode(data, now, "Unexpected size", 0, 0)
  ELSE CheckFrame(data, now, Word(At(data, 1), At(data, 2)))

\* packet.decode(data) at wall-clock time now: the result, the packet object
\* and (for the record) the two CRCs and the loop's final cursor.
PacketDecode(data, now) ==
  IF At(data, 0) # NASA_START_BYTE
    THEN FailedDecode(data, now, "Invalid start byte", 0, 0)
  ELSE IF Len(data) < MinFrameLen \/ Len(data) > MaxFrameLen
    THEN FailedDecode(data, now, "Unexpected size", 0, 0)
  ELSE CheckFrame(data, now, Word(At(data, 1), At(data, 2)))

\* Packet.getSignature: source, destination, data-type name and the ordered
\* message numbers (the string's four components).
DataTypeName(dataType) ==
  CASE dataType = 0 -> "Undefined"
    [] dataType = 1 -> "Read"
    [] dataType = 2 -> "Write"
    [] dataType = 3 -> "Request"
    [] dataType = 4 -> "Notification"
    [] dataType = 5 -> "Response"
    [] dataType = 6 -> "Ack"
    [] dataType = 7 -> "Nack"
    [] OTHER -> "undefined"

GetSignatureWithPacketNumber(packet) ==
  <<packet.sa, packet.da, DataTypeName(packet.command.dataType),
    [i \in 1..Len(packet.messages) |-> packet.messages[i].messageNumber],
    packet.command.packetNumber>>

GetSignature(packet) ==
  <<packet.sa, packet.da, DataTypeName(packet.command.dataType),
    [i \in 1..Len(packet.messages) |-> packet.messages[i].messageNumber]>>

\* ------------------------------------------------------------------------
\* PacketAnalyzer.analyzeBuffer (packet-decoder.js)
\* ------------------------------------------------------------------------

\* The error strings analyzeBuffer pushes, by what they carry.
SkippedError(nextStart) == [text |-> "Skipped bytes looking for start byte",
                            n |-> nextStart, error |-> "",
                            expected |-> 0, actual |-> 0]

DecodeError(result) == [text |-> "Decode error", n |-> 0,
                        error |-> result.error,
                        expected |-> result.crcExpected,
                        actual |-> result.crcActual]

\* The while loop.  frames records every packetData the loop cut out of the
\* buffer, in order (it is not part of the returned object).
RECURSIVE AnalyzeLoop(_, _, _, _, _)
\* After a failed decode the scan resumes one byte into the failed frame.
AnalyzeDecodedRescans(rest, packets, errors, frames, now, packetData, result) ==
  IF result.success
    THEN AnalyzeLoop(rest, Append(packets, result.packet), errors,
                     Append(frames, packetData), now)
    ELSE AnalyzeLoop(SliceFrom(packetData, 1) \o rest, packets,
                     Append(errors, DecodeError(result)),
                     Append(frames, packetData), now)

\* The loop's body from "const result = packet.decode(packetData)" on.
AnalyzeDecoded(rest, packets, errors, frames, now, packetData, result) ==
  IF result.success
    THEN AnalyzeLoop(rest, Append(packets, result.packet), errors,
                     Append(frames, packetData), now)
    ELSE AnalyzeLoop(rest, packets, Append(errors, DecodeError(result)),
                     Append(frames, packetData), now)

\* The frame is cut two bytes short of expectedSize + 2.
AnalyzeFrameCutsShort(workingBuffer, packets, errors, frames, now, totalSize) ==
  IF Len(workingBuffer) >= totalSize
    THEN AnalyzeDecoded(SliceFrom(workingBuffer, totalSize - 2), packets,
                        errors, frames, now,
                        SliceTo(workingBuffer, totalSize - 2),
                        PacketDecode(SliceTo(workingBuffer, totalSize - 2),
                                     now))
    ELSE [packets |-> packets, remainingBuffer |-> workingBuffer,
          errors |-> errors, frames |-> frames]

\* The loop's body once the buffer starts with the start byte and holds three
\* bytes; totalSize is expectedSize + 2.
AnalyzeFrame(workingBuffer, packets, errors, frames, now, totalSize) ==
  IF Len(workingBuffer) >= totalSize
    THEN AnalyzeDecoded(SliceFrom(workingBuffer, totalSize), packets, errors,
                        frames, now, SliceTo(workingBuffer, totalSize),
                        PacketDecode(SliceTo(workingBuffer, totalSize), now))
    ELSE [packets |-> packets, remainingBuffer |-> workingBuffer,
          errors |-> errors, frames |-> frames]

\* The loop's body when the buffer does not start with the start byte.
AnalyzeSkip(workingBuffer, packets, errors, frames, now, nextStart) ==
  IF nextStart = -1
    THEN [packets |-> packets, remainingBuffer |-> <<>>,
          errors |-> errors, frames |-> frames]
    ELSE AnalyzeLoop(SliceFrom(workingBuffer, nextStart), packets,
                     Append(errors, SkippedError(nextStart)), frames, now)

AnalyzeLoop(workingBuffer, packets, errors, frames, now) ==
  IF Len(workingBuffer) = 0
    THEN [packets |-> packets, remainingBuffer |-> workingBuffer,
          errors |-> errors, frames |-> frames]
  ELSE IF workingBuffer[1] # NASA_START_BYTE
    THEN AnalyzeSkip(workingBuffer, packets, errors, frames, now,
                     IndexOf(workingBuffer, NASA_START_BYTE, 1))
  ELSE IF Len(workingBuffer) >= 3
    THEN AnalyzeFrame(workingBuffer, packets, errors, frames, now,
                      Word(workingBuffer[2], workingBuffer[3]) + 2)
    ELSE [packets |-> packets, remainingBuffer |-> workingBuffer,
          errors |-> errors, frames |-> frames]

analyzeBuffer(buffer, now) == AnalyzeLoop(buffer, <<>>, <<>>, <<>>, now)

\* ------------------------------------------------------------------------
\* NasaSniffer.handleIncomingData's loop (index.js)
\* ------------------------------------------------------------------------

\* The while loop over this.responseBuffer: the frames it passes to
\* processPacketData, in order, and the buffer it leaves.
RECURSIVE SnifferLoop(_, _)
\* An incomplete frame is dropped instead of being carried over.
SnifferFrameDropsTail(responseBuffer, frames, totalSize) ==
  IF Len(responseBuffer) >= totalSize
    THEN SnifferLoop(SliceFrom(responseBuffer, totalSize),
                     Append(frames, SliceTo(responseBuffer, totalSize)))
    ELSE [frames |-> frames, responseBuffer |-> <<>>]

\* An incomplete frame is handed on as it is.
SnifferFrameEmitsPartial(responseBuffer, frames, totalSize) ==
  IF Len(responseBuffer) >= totalSize
    THEN SnifferLoop(SliceFrom(responseBuffer, totalSize),
                     Append(frames, SliceTo(responseBuffer, totalSize)))
    ELSE [frames |-> Append(frames, responseBuffer), responseBuffer |-> <<>>]

\* The buffer is cut one byte short of the frame: the frame's last byte is
\* looked at again.
SnifferFrameOverlaps(responseBuffer, frames, totalSize) ==
  IF Len(responseBuffer) >= totalSize
    THEN SnifferLoop(SliceFrom(responseBuffer, totalSize - 1),
                     Append(frames, SliceTo(responseBuffer, totalSize)))
    ELSE [frames |-> frames, responseBuffer |-> responseBuffer]

SnifferFrame(responseBuffer, frames, totalSize) ==
  IF Len(responseBuffer) >= totalSize
    THEN SnifferLoop(SliceFrom(responseBuffer, totalSize),
                     Append(frames, SliceTo(responseBuffer, totalSize)))
    ELSE [frames |-> frames, responseBuffer |-> responseBuffer]

SnifferSkip(responseBuffer, frames, nextStart) ==
  IF nextStart = -1
    THEN [frames |-> frames, responseBuffer |-> <<>>]
    ELSE SnifferLoop(SliceFrom(responseBuffer, nextStart), frames)

SnifferLoop(responseBuffer, frames) ==
  IF Len(responseBuffer) = 0
    THEN [frames |-> frames, responseBuffer |-> responseBuffer]
  ELSE IF responseBuffer[1] # NASA_START_BYTE
    THEN SnifferSkip(responseBuffer, frames,
                     IndexOf(responseBuffer, NASA_START_BYTE, 1))
  ELSE IF Len(responseBuffer) >= 3
    THEN SnifferFrame(responseBuffer, frames,
                      Word(responseBuffer[2], responseBuffer[3]) + 2)
    ELSE [frames |-> frames, responseBuffer |-> responseBuffer]

\* ------------------------------------------------------------------------
\* PacketGrouper (index.js)
\* ------------------------------------------------------------------------

\* The Map of groups is a sequence in insertion order.
NewGrouper == [groups |-> <<>>, totalPackets |-> 0]

GroupIndex(groups, signature) ==
  IF \E i \in 1..Len(groups) : groups[i].signature = signature
    THEN CHOOSE i \in 1..Len(groups) : groups[i].signature = signature
    ELSE 0

addPacketMovesFirstSeen(grouper, packet) ==
  LET signature == GetSignature(packet)
      withGroup ==
        IF GroupIndex(grouper.groups, signature) = 0
          THEN Append(grouper.groups,
                      [signature |-> signature, count |-> 0,
                       firstSeen |-> packet.timestamp,
                       lastSeen |-> packet.timestamp,
                       examplePacket |-> packet, allPackets |-> <<>>])
          ELSE grouper.groups
      g == GroupIndex(withGroup, signature)
  IN  [groups |-> [withGroup EXCEPT
                     ![g].count = @ + 1,
                     ![g].firstSeen = packet.timestamp,
                     ![g].lastSeen = packet.timestamp,
                     ![g].allPackets = Append(@, packet)],
       totalPackets |-> grouper.totalPackets + 1]

\* A group retains its latest packet only.
addPacketKeepsLatest(grouper, packet) ==
  LET signature == GetSignature(packet)
      withGroup ==
        IF GroupIndex(grouper.groups, signature) = 0
          THEN Append(grouper.groups,
                      [signature |-> signature, count |-> 0,
                       firstSeen |-> packet.timestamp,
                       lastSeen |-> packet.timestamp,
                       examplePacket |-> packet, allPackets |-> <<>>])
          ELSE grouper.groups
      g == GroupIndex(withGroup, signature)
  IN  [groups |-> [withGroup EXCEPT
                     ![g].count = @ + 1,
                     ![g].lastSeen = packet.timestamp,
                     ![g].allPackets = <<packet>>],
       totalPackets |-> grouper.totalPackets + 1]

addPacket(grouper, packet) ==
  LET signature == GetSignature(packet)
      withGroup ==
        IF GroupIndex(grouper.groups, signature) = 0
          THEN Append(grouper.groups,
                      [signature |-> signature, count |-> 0,
                       firstSeen |-> packet.timestamp,
                       lastSeen |-> packet.timestamp,
                       examplePacket |-> packet, allPackets |-> <<>>])
          ELSE grouper.groups
      g == GroupIndex(withGroup, signature)
  IN  [groups |-> [withGroup EXCEPT
                     ![g].count = @ + 1,
                     ![g].lastSeen = packet.timestamp,
                     ![g].allPackets = Append(@, packet)],
       totalPackets |-> grouper.totalPackets + 1]

\* Array.prototype.sort with (a, b) => b.count - a.count: the sort is stable,
\* so a group goes behind every group already placed whose count is not
\* smaller.
RECURSIVE PlaceByCount(_, _, _)
PlaceByCount(sorted, group, i) ==
  IF i > Len(sorted) THEN Append(sorted, group)
  ELSE IF sorted[i].count - group.count < 0
    THEN SubSeq(sorted, 1, i - 1) \o <<group>> \o SubSeq(sorted, i, Len(sorted))
    ELSE PlaceByCount(sorted, group, i + 1)

RECURSIVE SortFrom(_, _, _)
SortFrom(groups, i, sorted) ==
  IF i > Len(groups) THEN sorted
  ELSE SortFrom(groups, i + 1, PlaceByCount(sorted, groups[i], 1))

SortByCountAscending(groups) ==
  LET sorted == SortFrom(groups, 1, <<>>)
  IN  [i \in 1..Len(sorted) |-> sorted[Len(sorted) + 1 - i]]

SortByCount(groups) == SortFrom(groups, 1, <<>>)

\* What the report says after a group's example packet: the timestamps of
\* its occurrences, or the line that they are too many.
OccurrenceLines(group) ==
  IF group.count > 1 /\ group.count <= 10
    THEN <<[text |-> "All Occurrences:",
            timestamps |-> [i \in 1..Len(group.allPackets) |->
                              group.allPackets[i].timestamp]]>>
  ELSE IF group.count > 10
    THEN <<[text |-> "(Too many occurrences to list individually)",
            total |-> group.count]>>
    ELSE <<>>

ReportGroup(sortedGroups, index) ==
  [number |-> index,
   signature |-> sortedGroups[index].signature,
   occurrences |-> sortedGroups[index].count,
   firstSeen |-> sortedGroups[index].firstSeen,
   lastSeen |-> sortedGroups[index].lastSeen,
   examplePacket |-> sortedGroups[index].examplePacket,
   lines |-> OccurrenceLines(sortedGroups[index])]

ReportOf(totalPackets, size, sortedGroups) ==
  [totalPackets |-> totalPackets, uniqueTypes |-> size,
   groups |-> [index \in 1..Len(sortedGroups) |->
                 ReportGroup(sortedGroups, index)]]

generateReport(grouper) ==
  ReportOf(grouper.totalPackets, Len(grouper.groups),
           SortByCount(grouper.groups))

reset(grouper) == [groups |-> <<>>, totalPackets |-> 0]

\* ------------------------------------------------------------------------
\* Logger (logger.js): the state its report is made of
\* ------------------------------------------------------------------------

NewLogger == [packetGroups |-> <<>>, totalPackets |-> 0]

_addToGroups(logger, packet) ==
  LET signature == GetSignature(packet)
      withGroup ==
        IF GroupIndex(logger.packetGroups, signature) = 0
          THEN Append(logger.packetGroups,
                      [signature |-> signature, count |-> 0,
                       firstSeen |-> packet.timestamp,
                       lastSeen |-> packet.timestamp,
                       examplePacket |-> packet, allPackets |-> <<>>])
          ELSE logger.packetGroups
      g == GroupIndex(withGroup, signature)
  IN  [logger EXCEPT
         !.packetGroups = [withGroup EXCEPT
                             ![g].count = @ + 1,
                             ![g].lastSeen = packet.timestamp,
                             ![g].allPackets = Append(@, packet)]]

logPacket(logger, packet) ==
  _addToGroups([logger EXCEPT !.totalPackets = @ + 1], packet)

_generateReport(logger) ==
  ReportOf(logger.totalPackets, Len(logger.packetGroups),
           SortByCount(logger.packetGroups))

\* The entry of p that exportPackets makes of a packet.
ExportedPacket(packet) ==
  [t |-> packet.timestamp, s |-> packet.sa, d |-> packet.da,
   pt |-> packet.command.packetType, dt |-> packet.command.dataType,
   dtn |-> IF packet.command.dataType \in 0..7
             THEN DataTypeName(packet.command.dataType) ELSE "Unknown",
   pn |-> packet.command.packetNumber,
   pv |-> packet.command.protocolVersion,
   rc |-> packet.command.retryCount,
   m |-> [i \in 1..Len(packet.messages) |->
            [mn |-> packet.messages[i].messageNumber,
             mt |-> packet.messages[i].type,
             v |-> packet.messages[i].value,
             rv |-> getReadableValue(packet.messages[i])]],
   rd |-> packet.rawData]

\* allPackets of exportPackets before the sort: the packets of the groups,
\* one group after the other in the order of the Map.
RECURSIVE CollectPackets(_, _)
CollectPackets(groups, g) ==
  IF g > Len(groups) THEN <<>>
  ELSE groups[g].allPackets \o CollectPackets(groups, g + 1)

\* The orders Array.prototype.sort may leave the packets in.  The comparator
\* (a.timestamp > b.timestamp ? 1 : -1) puts a before b and b before a when
\* their timestamps are equal, which makes the order among them
\* implementation-defined; packets of different timestamps come out in the
\* order of the timestamps.
SortedByTimestamp(packets) ==
  {[i \in 1..Len(packets) |-> packets[order[i]]] :
     order \in {f \in [1..Len(packets) -> 1..Len(packets)] :
                  /\ \A i, j \in 1..Len(packets) : f[i] = f[j] => i = j
                  /\ \A i, j \in 1..Len(packets) :
                       i < j =>
                         packets[f[i]].timestamp <= packets[f[j]].timestamp}}

\* exportPackets() with the sort leaving the packets in the order sorted:
\* the object written to the file.
exportPackets(logger, sorted) ==
  [v |-> "1.0", tp |-> logger.totalPackets,
   p |-> [i \in 1..Len(sorted) |-> ExportedPacket(sorted[i])]]

getStats(logger) ==
  [totalPackets |-> logger.totalPackets,
   uniqueTypes |-> Len(logger.packetGroups)]

\* The Logger class has no method reset: the call logger.reset() throws a
\* TypeError and leaves the logger as it was.
LoggerReset(logger) == logger

\* ------------------------------------------------------------------------
\* WebSocketServer (websocket-server.js)
\* ------------------------------------------------------------------------

\* The sockets that may connect.
Sockets == {"ws1"}

\* A server as constructed: no clients and an empty history.  readyState and
\* inbox are the sockets' side: each socket's state and the messages sent on
\* it.  published is the record of every packetData broadcast so far.
NewServer ==
  [clients |-> {}, packetHistory |-> <<>>,
   readyState |-> [c \in Sockets |-> "NONE"],
   inbox |-> [c \in Sockets |-> <<>>],
   published |-> <<>>]

\* The JSON-friendly packet of broadcastPacket.  seq numbers the object (the
\* n-th packetData built); the name and hex fields derived from the others
\* are left out.
PacketDataOf(packet, seq) ==
  [seq |-> seq, timestamp |-> packet.timestamp,
   source |-> packet.sa, destination |-> packet.da,
   packetType |-> packet.command.packetType,
   dataType |-> packet.command.dataType,
   packetNumber |-> packet.command.packetNumber,
   protocolVersion |-> packet.command.protocolVersion,
   retryCount |-> packet.command.retryCount,
   messages |-> [i \in 1..Len(packet.messages) |->
                   [messageNumber |-> packet.messages[i].messageNumber,
                    type |-> packet.messages[i].type,
                    value |-> packet.messages[i].value]],
   rawData |-> packet.rawData]

\* unshift() in the place of push(): the newest entry goes in front.
PushHistoryInFront(packetHistory, packetData) ==
  LET pushed == <<packetData>> \o packetHistory
  IN  IF Len(pushed) > maxHistory THEN Tail(pushed) ELSE pushed

\* this.packetHistory.push(packetData); shift() when longer than maxHistory
PushHistory(packetHistory, packetData) ==
  LET pushed == Append(packetHistory, packetData)
  IN  IF Len(pushed) > maxHistory THEN Tail(pushed) ELSE pushed

\* The message is put in front of what the client was sent before.
SendToClientsNewestFirst(server, message) ==
  [c \in DOMAIN server.inbox |->
     IF c \in server.clients /\ server.readyState[c] = "OPEN"
       THEN <<message>> \o server.inbox[c]
       ELSE server.inbox[c]]

\* client.send(message) to every client whose readyState is OPEN
SendToClients(server, message) ==
  [c \in DOMAIN server.inbox |->
     IF c \in server.clients /\ server.readyState[c] = "OPEN"
       THEN Append(server.inbox[c], message)
       ELSE server.inbox[c]]

\* broadcastPacket from "Add to history" on.
BroadcastData(server, packetData) ==
  [server EXCEPT
     !.packetHistory = PushHistory(@, packetData),
     !.inbox = SendToClients(server, [type |-> "packet",
                                      data |-> packetData]),
     !.published = Append(@, packetData)]

broadcastPacket(server, packet) ==
  BroadcastData(server, PacketDataOf(packet, Len(server.published) + 1))

\* The new client is sent an empty history.
onConnectionEmptyHistory(server, c) ==
  [server EXCEPT
     !.clients = @ \cup {c},
     !.readyState[c] = "OPEN",
     !.inbox[c] = Append(@, [type |-> "history", packets |-> <<>>])]

\* wss.on("connection"): add the socket, send it the history.
onConnection(server, c) ==
  [server EXCEPT
     !.clients = @ \cup {c},
     !.readyState[c] = "OPEN",
     !.inbox[c] = Append(@, [type |-> "history",
                             packets |-> server.packetHistory])]

\* The close handler leaves the socket in the set.
onCloseKeepsClient(server, c) ==
  [server EXCEPT !.readyState[c] = "CLOSED"]

\* ws.on("close") and ws.on("error")
onClose(server, c) ==
  [server EXCEPT !.clients = @ \ {c}, !.readyState[c] = "CLOSED"]

onError(server, c) ==
  [server EXCEPT !.clients = @ \ {c}, !.readyState[c] = "CLOSING"]

\* The servers behind the WebSocketServer.  listening: the http server is
\* bound; wss: the state of the WebSocket server; started, rejected: the
\* start promises resolved and rejected; close: what close() is waiting for
\* ("no" before it is called); resolved: its promise; forceTimer: the
\* one-second timer; last: the last call or event.
NewSession ==
  [listening |-> FALSE, wss |-> "RUNNING", started |-> 0, rejected |-> 0,
   close |-> "no", resolved |-> FALSE, forceTimer |-> FALSE,
   last |-> <<"new">>]

Running(session) == IF session.started > 0 THEN "running" ELSE "idle"

\* start(): httpServer.listen binds the server; on a server that is bound
\* already it throws ERR_SERVER_ALREADY_LISTEN inside the promise's
\* executor, and the promise is rejected.
start(session) ==
  IF session.listening
    THEN [session EXCEPT !.rejected = @ + 1,
                         !.last = <<"start", Running(session), "rejected">>]
    ELSE [session EXCEPT !.listening = TRUE,
                         !.last = <<"start", Running(session), "bound">>]

\* the callback of listen: resolve()
listenCallback(session) ==
  [session EXCEPT !.started = @ + 1, !.last = <<"listening">>]

\* close() leaves every client where it is.
closeClientsKept(server) == server

\* close(), the clients: terminate() each one, which leaves it CLOSING
\* until its socket is closed; clear the set.
closeClients(server) ==
  [server EXCEPT
     !.readyState = [c \in DOMAIN @ |->
                       IF c \in server.clients /\ @[c] # "CLOSED"
                         THEN "CLOSING" ELSE @[c]],
     !.clients = {}]

\* close(), the servers: this.wss.close(callback)
closeServers(session) ==
  [session EXCEPT !.wss = "CLOSING", !.close = "wss", !.last = <<"close">>]

\* the callback of wss.close: httpServer.close(callback), which stops the
\* listening, and the one-second timer
wssCloseCallback(session) ==
  [session EXCEPT !.wss = "CLOSED", !.listening = FALSE, !.close = "http",
                  !.forceTimer = TRUE, !.last = <<"wss closed">>]

\* the callback of httpServer.close: resolve()
httpCloseCallback(session) ==
  [session EXCEPT !.close = "closed", !.resolved = TRUE,
                  !.last = <<"http closed">>]

\* the timer: closeAllConnections, resolve()
forceClose(session) ==
  [session EXCEPT !.forceTimer = FALSE, !.resolved = TRUE,
                  !.last = <<"force closed">>]

\* ------------------------------------------------------------------------
\* NasaSniffer.processPacketData and handleIncomingData (index.js)
\* ------------------------------------------------------------------------

\* The sniffer's objects: the response buffer, the grouper, what was written to the raw log (the
\* console gets the same lines) and the WebSocket server (gui is whether
\* there is one).
NewSniffer(gui) ==
  [gui |-> gui, responseBuffer |-> <<>>, grouper |-> NewGrouper,
   rawLog |-> <<>>, server |-> NewServer]

\* processPacketData from "if (result.success)" on.
ProcessDecoded(sn, data, result) ==
  IF result.success
    THEN [sn EXCEPT
            !.grouper = addPacket(@, result.packet),
            !.rawLog = Append(@, [kind |-> "packet", error |-> "",
                                  rawData |-> result.packet.rawData]),
            !.server = IF sn.gui THEN broadcastPacket(@, result.packet)
                                 ELSE @]
    ELSE [sn EXCEPT
            !.rawLog = Append(@, [kind |-> "ERROR", error |-> result.error,
                                  rawData |-> data])]

processPacketData(sn, data, now) ==
  ProcessDecoded(sn, data, PacketDecode(data, now))

\* processPacketData on each frame of the loop, in the loop's order.
\* (sn.gui \in BOOLEAN is always true and makes TLC evaluate sn at each step.)
RECURSIVE ProcessFrames(_, _, _, _)
ProcessFrames(sn, frames, i, now) ==
  IF sn.gui \in BOOLEAN /\ i <= Len(frames)
    THEN ProcessFrames(processPacketData(sn, frames[i], now), frames, i + 1, now)
    ELSE sn

\* The sniffer after the loop, and the frames the loop cut out.
AfterLoop(sn, loop, now) ==
  [sniffer |-> [ProcessFrames(sn, loop.frames, 1, now)
                  EXCEPT !.responseBuffer = loop.responseBuffer],
   frames |-> loop.frames]

\* this.responseBuffer = Buffer.concat([this.responseBuffer, data]), then the
\* loop.
handleIncomingData(sn, data, now) ==
  AfterLoop(sn, SnifferLoop(sn.responseBuffer \o data, <<>>), now)

\* ------------------------------------------------------------------------
\* The byte streams fed to the pipeline
\* ------------------------------------------------------------------------

\* Bytes per chunk (a chunk may also be all that is left of the stream), and
\* how far the clock runs.
MaxChunk == 3

MaxClock == 1

SegmentNames == {"Minimal", "Enum", "BadCrc", "Stray", "Garbage", "Short"}

\* Minimal: the 16-byte frame with zero addresses and command, capacity 0.
\* Enum: 20.00.00 -> 50.00.00, Normal/Notification, one Enum 0x4000 = 1.
\* BadCrc: Enum with the value changed to 0 under the same CRC.
\* Stray: one start byte.  Garbage: three bytes, none a start byte.
\* Short: a start byte declaring a 5-byte frame, and 2 more bytes.
\* BadEnd: Enum with another byte in the place of the end byte.
Segment(name) ==
  CASE name = "Minimal" -> <<50, 0, 14, 0, 0, 0, 0, 0, 0, 0, 0, 0, 0, 0, 0, 52>>
    [] name = "Enum" ->
         <<50, 0, 17, 32, 0, 0, 80, 0, 0, 192, 20, 5, 1, 64, 0, 1, 249, 187, 52>>
    [] name = "BadCrc" ->
         <<50, 0, 17, 32, 0, 0, 80, 0, 0, 192, 20, 5, 1, 64, 0, 0, 249, 187, 52>>
    [] name = "Stray" -> <<50>>
    [] name = "Garbage" -> <<170, 187, 204>>
    [] name = "Short" -> <<50, 0, 3, 0, 0>>
    [] name = "BadEnd" ->
         <<50, 0, 17, 32, 0, 0, 80, 0, 0, 192, 20, 5, 1, 64, 0, 1, 249, 187, 53>>

RECURSIVE StreamOf(_)
StreamOf(names) ==
  IF names = <<>> THEN <<>> ELSE Segment(Head(names)) \o StreamOf(Tail(names))

Scenarios ==
  {<<"Minimal">>, <<"Enum", "Minimal">>, <<"Enum", "Enum", "Minimal">>,
   <<"Garbage", "Minimal">>, <<"Garbage", "Garbage", "Enum">>,
   <<"Stray", "Minimal">>, <<"Stray", "Enum", "Garbage">>,
   <<"Short", "Enum">>, <<"Garbage", "Short", "Minimal">>,
   <<"BadCrc", "Enum">>, <<"Enum", "BadCrc", "Minimal">>,
   <<"BadCrc">>, <<"Garbage">>, <<"Minimal", "Garbage", "Enum">>}

\* ------------------------------------------------------------------------
\* The browser page (public/graphs.js)
\* ------------------------------------------------------------------------

\* packets, filteredPackets, isPaused and viewMode of the page; last is the
\* last message or click.
NewClient ==
  [viewMode |-> FALSE, isPaused |-> FALSE, packets |-> <<>>,
   filteredPackets |-> <<>>, last |-> "load"]

\* applyFilters with every filter empty: all the packets are shown.
applyFilters(page) == [page EXCEPT !.filteredPackets = page.packets]

\* ws.onmessage
onmessage(page, message) ==
  LET seen == [page EXCEPT !.last = message.type]
  IN  CASE message.type = "init" ->
             applyFilters([seen EXCEPT !.viewMode = message.viewMode,
                                       !.packets = message.packets])
        [] message.type = "history" ->
             applyFilters([seen EXCEPT !.packets = message.packets])
        [] message.type = "packet" ->
             LET pushed == [seen EXCEPT !.packets = Append(@, message.data)]
             IN  IF ~page.isPaused /\ ~page.viewMode
                   THEN applyFilters(pushed) ELSE pushed
        [] OTHER -> seen

\* The click handler of clearPacketsBtn without the view mode check.
clearPacketsAlways(page, confirmed) ==
  LET seen == [page EXCEPT !.last = "clear"]
  IN  IF confirmed THEN applyFilters([seen EXCEPT !.packets = <<>>])
                   ELSE seen

\* The click handler of clearPacketsBtn; confirmed is the answer to
\* confirm().
clearPackets(page, confirmed) ==
  LET seen == [page EXCEPT !.last = "clear"]
  IN  IF page.viewMode THEN seen
      ELSE IF confirmed THEN applyFilters([seen EXCEPT !.packets = <<>>])
      ELSE seen

\* The click handler of pauseBtn.
pause(page) ==
  LET seen == [page EXCEPT !.last = "pause"]
  IN  IF page.viewMode THEN seen
      ELSE IF ~page.isPaused THEN [seen EXCEPT !.isPaused = TRUE]
      ELSE applyFilters([seen EXCEPT !.isPaused = FALSE])

\* ------------------------------------------------------------------------
\* TcpInterface (interfaces/tcp-interface.js)
\* ------------------------------------------------------------------------

\* client is the state of the socket this.client ("none" for null,
\* "destroyed" while its close event is due); reconnectTimer tells that the
\* timer is armed; timeouts holds the connection timeouts yet to fire, the
\* oldest first: own tells that the socket of the connect call that set
\* the timeout is still this.client, established that this socket was
\* connected.  fired describes the timeout that fired last: acted tells
\* that it found the interface not connected, destroyed that this.client
\* was a connecting socket then.  emitted holds the events the last step
\* emitted, midFrame tells that a socket was closed while a frame was
\* incomplete, closedWhile is what close() found, last is the last step.
NoTimer ==
  [own |-> TRUE, established |-> FALSE, acted |-> FALSE,
   destroyed |-> FALSE]

NewTcpInterface ==
  [client |-> "none", isConnected |-> FALSE, buffer |-> <<>>,
   reconnectTimer |-> FALSE, shouldReconnect |-> TRUE, timeouts |-> <<>>,
   fired |-> NoTimer, emitted |-> <<>>, midFrame |-> FALSE,
   closedWhile |-> "", last |-> "new"]

\* connect(): a new socket starts connecting, the connection timeout is set
connect(tcp) ==
  [tcp EXCEPT !.client = "connecting",
              !.timeouts =
                 Append([i \in DOMAIN @ |-> [@[i] EXCEPT !.own = FALSE]],
                        [own |-> TRUE, established |-> FALSE]),
              !.reconnectTimer = FALSE, !.emitted = <<>>,
              !.last = "connect"]

\* the connect callback
onConnect(tcp) ==
  [tcp EXCEPT !.client = "open", !.isConnected = TRUE,
              !.timeouts =
                 [i \in DOMAIN @ |->
                    [@[i] EXCEPT !.established = @ \/ tcp.timeouts[i].own]],
              !.emitted = <<"connected">>, !.last = "connected"]

\* client.on("data")
onData(tcp, data) ==
  [tcp EXCEPT !.buffer = @ \o data, !.emitted = <<"data">>,
              !.last = "data"]

\* client.on("error"); the socket is destroyed after an error
onSocketError(tcp) ==
  [tcp EXCEPT !.client = "destroyed", !.emitted = <<"error">>,
              !.last = "socket error"]

\* The close handler arms no timer.
onSocketCloseGivesUp(tcp) ==
  [tcp EXCEPT !.client = "closed", !.isConnected = FALSE,
              !.emitted = <<"disconnected">>, !.last = "socket close"]

\* client.on("close")
onSocketClose(tcp) ==
  [tcp EXCEPT !.client = "closed", !.isConnected = FALSE,
              !.emitted = IF tcp.shouldReconnect
                            THEN <<"disconnected", "reconnecting">>
                            ELSE <<"disconnected">>,
              !.reconnectTimer = @ \/ tcp.shouldReconnect,
              !.last = "socket close"]

\* the connection timeout: this.client, the socket of the latest connect,
\* is destroyed if the interface is not connected
onTimeout(tcp) ==
  [tcp EXCEPT !.timeouts = Tail(@),
              !.fired = [own |-> Head(tcp.timeouts).own,
                         established |-> Head(tcp.timeouts).established,
                         acted |-> ~tcp.isConnected,
                         destroyed |-> /\ ~tcp.isConnected
                                       /\ tcp.client = "connecting"],
              !.client = IF ~tcp.isConnected /\ @ = "connecting"
                           THEN "destroyed" ELSE @,
              !.emitted = <<>>, !.last = "timeout"]

\* What close() finds.
Situation(tcp) ==
  IF tcp.client = "open" /\ tcp.isConnected THEN "connected"
  ELSE IF tcp.reconnectTimer THEN "timer pending"
  ELSE IF tcp.client = "connecting" THEN "connecting"
  ELSE "other"

\* close() leaves the reconnect timer armed.
tcpCloseKeepsTimer(tcp) ==
  [tcp EXCEPT !.shouldReconnect = FALSE,
              !.client = IF @ \in {"connecting", "open"}
                           THEN "destroyed" ELSE @,
              !.isConnected = FALSE,
              !.closedWhile = Situation(tcp),
              !.emitted = <<>>, !.last = "close"]

\* close()
tcpClose(tcp) ==
  [tcp EXCEPT !.shouldReconnect = FALSE, !.reconnectTimer = FALSE,
              !.client = IF @ \in {"connecting", "open"}
                           THEN "destroyed" ELSE @,
              !.isConnected = FALSE,
              !.closedWhile = Situation(tcp),
              !.emitted = <<>>, !.last = "close"]

\* ------------------------------------------------------------------------
\* main (index.js)
\* ------------------------------------------------------------------------

\* isShuttingDown of main; awaiting is the close that shutdown is waiting
\* for; exited tells that process.exit was called.  triggers counts the
\* shutdown triggers, snifferCloses and serverCloses the calls of
\* sniffer.close() and webSocketServer.close(), finalReports the reports
\* saved by sniffer.close().
NewMain ==
  [isShuttingDown |-> FALSE, awaiting |-> "", exited |-> FALSE,
   triggers |-> 0, snifferCloses |-> 0, serverCloses |-> 0,
   finalReports |-> 0]

\* shutdown() without the check of isShuttingDown.
shutdownUnguarded(m) ==
  [m EXCEPT !.isShuttingDown = TRUE, !.awaiting = "sniffer",
            !.triggers = @ + 1, !.snifferCloses = @ + 1,
            !.finalReports = @ + 1]

\* shutdown() up to its first await: sniffer.close() was called, which
\* saves the final report
shutdown(m) ==
  IF m.isShuttingDown THEN [m EXCEPT !.triggers = @ + 1]
  ELSE [m EXCEPT !.isShuttingDown = TRUE, !.awaiting = "sniffer",
                 !.triggers = @ + 1, !.snifferCloses = @ + 1,
                 !.finalReports = @ + 1]

\* shutdown() after sniffer.close(): the server's close is called and
\* awaited if there is a server, and the process exits if there is none
afterSnifferClose(m, gui) ==
  IF gui THEN [m EXCEPT !.awaiting = "server", !.serverCloses = @ + 1]
         ELSE [m EXCEPT !.awaiting = "", !.exited = TRUE]

\* shutdown() after webSocketServer.close(): process.exit(0)
afterServerClose(m) == [m EXCEPT !.awaiting = "", !.exited = TRUE]

\* ------------------------------------------------------------------------
\* The pipeline as a state machine
\* ------------------------------------------------------------------------

VARIABLES
  mode,       \* "cli", "gui": index.js without and with --gui;
              \* "analyzer": PacketAnalyzer.analyzeBuffer fed chunk by chunk;
              \* "grouper", "logger": the packet analyser fed packet by packet
  scenario,   \* the segment names of the stream on the wire
  pos,        \* bytes of the stream the transport has delivered
  clock,      \* the wall clock
  sniffer,    \* the NasaSniffer and what hangs off it
  analyzer,   \* the analyzer's caller: the tail it carries, the packets and
              \* errors it has collected
  frames,     \* every frame cut out of the stream so far, in order
  input,      \* the frame given to Packet.decode called on its own
  result,     \* what it returned: <<>> before the call, <<the result>> after
  logger,     \* the Logger's report state
  observed,   \* the calls made on the packet analyser under study: the
              \* packets it was given since it was last emptied, and the
              \* last call
  session,    \* the WebSocketServer's http and WebSocket servers, its start
              \* and close promises
  client,     \* the browser page of graphs.js
  transport,  \* the TcpInterface
  main        \* main() of index.js: the shutdown in progress

vars ==
  <<mode, scenario, pos, clock, sniffer, analyzer, frames, input, result,
    logger, observed, session, client, transport, main>>

NoneObserved == [packets |-> <<>>, call |-> "new"]

stream == StreamOf(scenario)

NewAnalyzer == [buffer |-> <<>>, packets |-> <<>>, errors |-> <<>>]

Init ==
  /\ mode \in {"cli", "gui", "analyzer"}
  /\ scenario \in Scenarios
  /\ pos = 0
  /\ clock = 0
  /\ sniffer = NewSniffer(mode = "gui")
  /\ analyzer = NewAnalyzer
  /\ frames = <<>>
  /\ input = <<>>
  /\ result = <<>>
  /\ logger = NewLogger
  /\ observed = NoneObserved
  /\ session = NewSession
  /\ client = NewClient
  /\ transport = NewTcpInterface
  /\ main = NewMain

ChunkSizes == {n \in 1..(Len(stream) - pos) : n <= MaxChunk \/ n = Len(stream) - pos}

Chunk(n) == SubSeq(stream, pos + 1, pos + n)

Handled(r) ==
  /\ sniffer' = r.sniffer
  /\ frames' = frames \o r.frames

Analyzed(r) ==
  /\ analyzer' = [buffer |-> r.remainingBuffer,
                  packets |-> analyzer.packets \o r.packets,
                  errors |-> analyzer.errors \o r.errors]
  /\ frames' = frames \o r.frames

\* port.on("data"): the next n bytes arrive, at time t.
Data(n, t) ==
  /\ mode \in {"cli", "gui"}
  /\ Handled(handleIncomingData(sniffer, Chunk(n), t))
  /\ pos' = pos + n
  /\ clock' = t
  /\ UNCHANGED <<mode, scenario, analyzer, input, result, logger, observed,
                 session, client, transport, main>>

\* The analyzer's caller appends the next n bytes, arriving at time t, to the
\* tail it kept, calls analyzeBuffer and keeps the new tail.
Analyze(n, t) ==
  /\ mode = "analyzer"
  /\ Analyzed(analyzeBuffer(analyzer.buffer \o Chunk(n), t))
  /\ pos' = pos + n
  /\ clock' = t
  /\ UNCHANGED <<mode, scenario, sniffer, input, result, logger, observed,
                 session, client, transport, main>>

\* A browser connects.
Connect(c) ==
  /\ mode = "gui"
  /\ sniffer.server.readyState[c] = "NONE"
  /\ sniffer' = [sniffer EXCEPT !.server = onConnection(@, c)]
  /\ UNCHANGED <<mode, scenario, pos, clock, analyzer, frames, input, result,
                 logger, observed, session, client, transport, main>>

\* The closing handshake starts: the socket is no longer OPEN.
BeginClose(c) ==
  /\ sniffer.server.readyState[c] = "OPEN"
  /\ sniffer' = [sniffer EXCEPT !.server.readyState[c] = "CLOSING"]
  /\ UNCHANGED <<mode, scenario, pos, clock, analyzer, frames, input, result,
                 logger, observed, session, client, transport, main>>

SocketError(c) ==
  /\ sniffer.server.readyState[c] \in {"OPEN", "CLOSING"}
  /\ sniffer' = [sniffer EXCEPT !.server = onError(@, c)]
  /\ UNCHANGED <<mode, scenario, pos, clock, analyzer, frames, input, result,
                 logger, observed, session, client, transport, main>>

SocketClose(c) ==
  /\ sniffer.server.readyState[c] = "CLOSING"
  /\ sniffer' = [sniffer EXCEPT !.server = onClose(@, c)]
  /\ UNCHANGED <<mode, scenario, pos, clock, analyzer, frames, input, result,
                 logger, observed, session, client, transport, main>>

\* The times at which the next chunk may arrive.
Times == clock..MaxClock

Next ==
  \/ \E n \in ChunkSizes, t \in Times : Data(n, t)
  \/ \E n \in ChunkSizes, t \in Times : Analyze(n, t)
  \/ \E c \in Sockets : Connect(c)
  \/ \E c \in Sockets : BeginClose(c)
  \/ \E c \in Sockets : SocketError(c)
  \/ \E c \in Sockets : SocketClose(c)

Spec == Init /\ [][Next]_vars

\* ------------------------------------------------------------------------
\* Packet.decode on its own, on frames good and bad
\* ------------------------------------------------------------------------

\* Records per frame.
MaxRecords == 2

\* CRC-16/XMODEM by the book, on a 16-bit register, one message bit at a
\* time: the register's top bit against the message bit decides whether the
\* polynomial 0x1021 is subtracted after the shift.
Flip16(reg, b) ==
  IF (reg \div (2 ^ b)) % 2 = 0 THEN reg + 2 ^ b ELSE reg - 2 ^ b

CrcRefBit(reg, bit) ==
  IF (reg \div 32768 + bit) % 2 = 1
    THEN Flip16(Flip16(Flip16((reg * 2) % 65536, 12), 5), 0)
    ELSE (reg * 2) % 65536

RECURSIVE CrcRefByte(_, _, _)
CrcRefByte(reg, byte, b) ==
  IF reg \notin Int \/ b < 0 THEN reg
  ELSE CrcRefByte(CrcRefBit(reg, (byte \div (2 ^ b)) % 2), byte, b - 1)

\* The register after bytes[lo .. hi], first half then second half.
RECURSIVE CrcRefRange(_, _, _, _)
CrcRefRange(bytes, lo, hi, reg) ==
  IF reg \notin Int \/ lo > hi THEN reg
  ELSE IF lo = hi THEN CrcRefByte(reg, bytes[lo], 7)
  ELSE CrcRefRange(bytes, (lo + hi) \div 2 + 1, hi,
                   CrcRefRange(bytes, lo, (lo + hi) \div 2, reg))

CrcRef(bytes) == CrcRefRange(bytes, 1, Len(bytes), 0)

\* One record of each type: Enum 0x4000 = 1, Variable 0x4201 = 250,
\* LongVariable 0x8401 = 0xFFFFFFFE, Structure 0x0600 with three bytes.
RecordKinds == {"Enum", "Variable", "LongVariable", "Structure"}

RecordBytes(kind) ==
  CASE kind = "Enum" -> <<64, 0, 1>>
    [] kind = "Variable" -> <<66, 1, 0, 250>>
    [] kind = "LongVariable" -> <<132, 1, 255, 255, 255, 254>>
    [] kind = "Structure" -> <<6, 0, 1, 2, 3>>

RECURSIVE RecordsOf(_)
RecordsOf(kinds) ==
  IF kinds = <<>> THEN <<>>
  ELSE RecordBytes(Head(kinds)) \o RecordsOf(Tail(kinds))

Bodies == UNION {[1..n -> RecordKinds] : n \in 0..MaxRecords}

\* 20.00.00 -> 50.00.00, protocol version 2, Normal/Notification, number 5.
Header == <<32, 0, 0, 80, 0, 0, 192, 20, 5>>

\* What is wrong with a frame: nothing, or one byte of it.
Defects == {"none", "crc", "end", "start", "size"}

\* The frame around a payload: the size field counts everything but the
\* start and end bytes.
Framed(payload, size, crc, defect) ==
  <<IF defect = "start" THEN 51 ELSE NASA_START_BYTE,
    size \div 256,
    (IF defect = "size" THEN size + 1 ELSE size) % 256>>
  \o payload
  \o <<crc \div 256,
       IF defect = "crc" THEN (crc + 1) % 256 ELSE crc % 256,
       IF defect = "end" THEN 53 ELSE NASA_END_BYTE>>

\* The frame that declares capacity records and carries those of kinds.
FrameOf(kinds, capacity, defect) ==
  Framed(Header \o <<capacity>> \o RecordsOf(kinds),
         Len(RecordsOf(kinds)) + 14,
         CrcRef(Header \o <<capacity>> \o RecordsOf(kinds)), defect)

\* A frame of n bytes, all zero between the size field and the end byte (the
\* CRC of zeros is zero).
ZeroFrame(n) ==
  <<NASA_START_BYTE, (n - 2) \div 256, (n - 2) % 256>>
  \o [i \in 1..(n - 4) |-> 0] \o <<NASA_END_BYTE>>

TestFrames ==
  {FrameOf(kinds, capacity, defect) :
     kinds \in Bodies, capacity \in 0..(MaxRecords + 1), defect \in Defects}
  \cup {ZeroFrame(n) : n \in {MinFrameLen - 1, MinFrameLen,
                              MaxFrameLen, MaxFrameLen + 1}}

InitDecode ==
  /\ mode = "decoder"
  /\ scenario = <<>>
  /\ pos = 0
  /\ clock = 0
  /\ sniffer = NewSniffer(FALSE)
  /\ analyzer = NewAnalyzer
  /\ frames = <<>>
  /\ input \in TestFrames
  /\ result = <<>>
  /\ logger = NewLogger
  /\ observed = NoneObserved
  /\ session = NewSession
  /\ client = NewClient
  /\ transport = NewTcpInterface
  /\ main = NewMain

\* new Packet().decode(input) at time t.
Decode(t) ==
  /\ result = <<>>
  /\ result' = <<PacketDecode(input, t)>>
  /\ clock' = t
  /\ UNCHANGED <<mode, scenario, pos, sniffer, analyzer, frames, input,
                 logger, observed, session, client, transport, main>>

NextDecode == \E t \in Times : Decode(t)

SpecDecode == InitDecode /\ [][NextDecode]_vars

\* ------------------------------------------------------------------------
\* Reassembly does not depend on how the stream is cut into chunks
\* ------------------------------------------------------------------------

\* The bytes delivered so far.
Delivered == SubSeq(stream, 1, pos)

\* Packets without the time of their decoding.
Untimed(packets) ==
  [i \in 1..Len(packets) |-> [packets[i] EXCEPT !.timestamp = 0]]

\* The state is what one invocation on all the delivered bytes leaves.
SnifferAsOneShot(one) ==
  /\ frames = one.frames
  /\ sniffer.responseBuffer = one.sniffer.responseBuffer
  /\ sniffer.rawLog = one.sniffer.rawLog
  /\ sniffer.grouper.totalPackets = one.sniffer.grouper.totalPackets

AnalyzerAsOneShot(one) ==
  /\ frames = one.frames
  /\ analyzer.buffer = one.remainingBuffer
  /\ Untimed(analyzer.packets) = one.packets

\* C1: however the delivered bytes were cut into chunks, the candidate frames,
\* the decoded packets (in order) and the carried tail are those that a single
\* invocation on all the delivered bytes produces.
C1_ChunkingInvariant ==
  /\ mode \in {"cli", "gui"} =>
        SnifferAsOneShot(handleIncomingData(NewSniffer(FALSE), Delivered, 0))
  /\ mode = "analyzer" => AnalyzerAsOneShot(analyzeBuffer(Delivered, 0))

\* Two frames that arrived in chunks of at most MaxChunk bytes have been cut
\* out and decoded, and the start of the third is carried (a chunk that stops
\* short of the stream's end has at most MaxChunk bytes).
C1_Witness ==
  /\ scenario = <<"Enum", "Enum", "Minimal">>
  /\ mode = "analyzer"
  /\ pos < Len(stream)
  /\ Len(analyzer.packets) = 2
  /\ analyzer.buffer # <<>>

\* ------------------------------------------------------------------------
\* Resynchronisation
\* ------------------------------------------------------------------------

\* The bytes the reassembler still holds.
Carried == IF mode = "analyzer" THEN analyzer.buffer ELSE sniffer.responseBuffer

\* The stream is a stray start byte and then a valid frame (and maybe more),
\* and the valid frame has been delivered.
StrayThenFrameDelivered ==
  /\ Len(scenario) >= 2
  /\ scenario[1] = "Stray"
  /\ scenario[2] \in {"Minimal", "Enum"}
  /\ pos >= 1 + Len(Segment(scenario[2]))

\* C2: once a stray start byte and the valid frame after it have arrived, the
\* stray byte has been skipped (the analyzer reporting it) and the frame has
\* been cut out and decoded into a packet.
C2_StrayStartByteSkipped ==
  StrayThenFrameDelivered =>
    /\ frames # <<>>
    /\ frames[1] = Segment(scenario[2])
    /\ mode = "analyzer" =>
          /\ analyzer.packets # <<>>
          /\ analyzer.packets[1].rawData = Segment(scenario[2])
          /\ analyzer.errors # <<>>
    /\ mode \in {"cli", "gui"} => sniffer.grouper.totalPackets >= 1

\* The length a buffer declares: ((buf[1] << 8) | buf[2]) + 2.
Declared(buf) == Word(buf[2], buf[3]) + 2

\* C3: no frame of a declared length below 16 or above 1500 is handed to the
\* decoder, and the reassembler is never left waiting for the rest of one.
C3_OutOfRangeLengthResyncs ==
  /\ \A i \in 1..Len(frames) :
        Len(frames[i]) >= MinFrameLen /\ Len(frames[i]) <= MaxFrameLen
  /\ ~ /\ Len(Carried) >= 3
       /\ Carried[1] = NASA_START_BYTE
       /\ (Declared(Carried) < MinFrameLen \/ Declared(Carried) > MaxFrameLen)

\* ------------------------------------------------------------------------
\* What the decoder accepts
\* ------------------------------------------------------------------------

\* First byte 0x32, last byte 0x34, length the size field + 2 and within
\* [16, 1500], CRC-16 over [3, len - 3) equal to the u16 at [len - 3, len - 1).
WellFormedFrame(raw) ==
  /\ Len(raw) >= MinFrameLen
  /\ Len(raw) <= MaxFrameLen
  /\ raw[1] = NASA_START_BYTE
  /\ raw[Len(raw)] = NASA_END_BYTE
  /\ Len(raw) = raw[2] * 256 + raw[3] + 2
  /\ CrcRef(SubSeq(raw, 4, Len(raw) - 3))
       = raw[Len(raw) - 2] * 256 + raw[Len(raw) - 1]

\* C4: a frame that Packet.decode accepts is well formed, and the packet
\* keeps it as its raw data.
C4_DecodedFramesAreValid ==
  \A i \in 1..Len(result) :
    result[i].success =>
      /\ result[i].packet.rawData = input
      /\ WellFormedFrame(result[i].packet.rawData)

\* A frame with two records was accepted.
C4_Witness ==
  /\ result # <<>>
  /\ result[1].success
  /\ Len(result[1].packet.messages) = 2

\* C5: after an accepted frame's records the cursor is at len - 3.
C5_RecordsFillPayload ==
  \A i \in 1..Len(result) :
    result[i].success => result[i].cursor = Len(input) - 3

\* Every record, laid out from cursor on, ends at or before limit.
RECURSIVE RecordsWithin(_, _, _)
RecordsWithin(messages, cursor, limit) ==
  \/ messages = <<>>
  \/ /\ cursor + Head(messages).size <= limit
     /\ RecordsWithin(Tail(messages), cursor + Head(messages).size, limit)

\* C6: no record of an accepted frame extends past len - 3.
C6_NoRecordPastPayload ==
  \A i \in 1..Len(result) :
    result[i].success =>
      RecordsWithin(result[i].packet.messages, 13, Len(input) - 3)

\* ------------------------------------------------------------------------
\* The history and the subscribers
\* ------------------------------------------------------------------------

\* Publishes in the history run.
MaxPublishes == 4

\* The server after publishing the packet of the Minimal frame hi - lo + 1
\* times, first half then second half.  (The test on server.published is
\* never true: it makes TLC evaluate server before it goes on.)
RECURSIVE PublishRange(_, _, _)
PublishRange(server, lo, hi) ==
  IF Len(server.published) < 0 \/ lo > hi THEN server
  ELSE IF lo = hi
    THEN broadcastPacket(server, PacketDecode(Segment("Minimal"), 0).packet)
  ELSE PublishRange(PublishRange(server, lo, (lo + hi) \div 2),
                    (lo + hi) \div 2 + 1, hi)

\* The history run starts on a new server or on one that has published two
\* packets less than its history holds.
InitHistory ==
  /\ mode = "gui"
  /\ scenario = <<>>
  /\ pos = 0
  /\ clock = 0
  /\ \E warm \in {0, maxHistory - 2} :
        sniffer = [NewSniffer(TRUE) EXCEPT
                     !.server = PublishRange(@, 1, warm)]
  /\ analyzer = NewAnalyzer
  /\ frames = <<>>
  /\ input = <<>>
  /\ result = <<>>
  /\ logger = NewLogger
  /\ observed = NoneObserved
  /\ session = NewSession
  /\ client = NewClient
  /\ transport = NewTcpInterface
  /\ main = NewMain

Published(packet) ==
  sniffer' = [sniffer EXCEPT !.server = broadcastPacket(@, packet)]

\* webSocketServer.broadcastPacket(packet) on the packet decoded at time t
\* from the frame called name.
Publish(name, t) ==
  /\ pos < MaxPublishes
  /\ Published(PacketDecode(Segment(name), t).packet)
  /\ pos' = pos + 1
  /\ clock' = t
  /\ UNCHANGED <<mode, scenario, analyzer, frames, input, result, logger,
                 observed, session, client, transport, main>>

NextHistory == \E name \in {"Minimal", "Enum"}, t \in Times : Publish(name, t)

SpecHistory == InitHistory /\ [][NextHistory]_vars

\* What a socket was sent: the packets of its "history" messages and the
\* packets of its "packet" messages, in order.
IsHistory(message) == message.type = "history"

IsLive(message) == message.type = "packet"

Live(c) ==
  [i \in 1..Len(SelectSeq(sniffer.server.inbox[c], IsLive)) |->
     SelectSeq(sniffer.server.inbox[c], IsLive)[i].data]

\* The history after the first a publishes.
HistoryAfter(a) ==
  SubSeq(sniffer.server.published,
         IF a > maxHistory THEN a - maxHistory + 1 ELSE 1, a)

\* Socket c attached after the first a publishes: its first message is the
\* history of that moment, and the live events that follow are the publishes
\* a + 1, a + 2, ... one each, up to the latest while the socket is open.
AttachedAfter(c, a) ==
  /\ IsHistory(sniffer.server.inbox[c][1])
  /\ sniffer.server.inbox[c][1].packets = HistoryAfter(a)
  /\ \A i \in 2..Len(sniffer.server.inbox[c]) :
        IsLive(sniffer.server.inbox[c][i])
  /\ a + Len(Live(c)) <= Len(sniffer.server.published)
  /\ Live(c) = SubSeq(sniffer.server.published, a + 1, a + Len(Live(c)))
  /\ sniffer.server.readyState[c] = "OPEN" =>
        a + Len(Live(c)) = Len(sniffer.server.published)

\* C7: a socket that attached is sent the whole history of the moment it
\* attached, then every later packet exactly once, and no packet both ways.
C7_SnapshotThenLive ==
  \A c \in Sockets :
    sniffer.server.readyState[c] # "NONE" =>
      \E a \in 0..Len(sniffer.server.published) : AttachedAfter(c, a)

\* An open socket whose history was not empty and that was sent a live
\* event after it.
C7_Witness ==
  \E c \in Sockets :
    /\ sniffer.server.readyState[c] = "OPEN"
    /\ Len(sniffer.server.inbox[c]) >= 2
    /\ sniffer.server.inbox[c][1].packets # <<>>

\* The raw data of the log's entries, and of its "packet" entries.
IsPacketEntry(entry) == entry.kind = "packet"

RawOf(entries) == [i \in 1..Len(entries) |-> entries[i].rawData]

\* C8: the frames are decoded in the order of the stream, the packets are
\* published in the order they were decoded, and each socket is sent its
\* live events in that order.
C8_LiveInDecodeOrder ==
  mode = "gui" =>
    /\ RawOf(sniffer.rawLog) = frames
    /\ RawOf(sniffer.server.published)
         = RawOf(SelectSeq(sniffer.rawLog, IsPacketEntry))
    /\ \A i \in 1..Len(sniffer.server.published) :
          sniffer.server.published[i].seq = i
    /\ \A c \in Sockets : \A i, j \in 1..Len(Live(c)) :
          i < j => Live(c)[i].seq < Live(c)[j].seq

\* A socket was sent two live events.
C8_Witness == \E c \in Sockets : Len(Live(c)) >= 2

\* C9: the history holds at most maxHistory packets: the latest
\* min(n, maxHistory) of the n published, in the order they were published.
C9_HistoryIsLatest ==
  /\ Len(sniffer.server.packetHistory) <= maxHistory
  /\ sniffer.server.packetHistory
       = HistoryAfter(Len(sniffer.server.published))

\* The history is full and its oldest entry has been evicted.
C9_Witness ==
  /\ Len(sniffer.server.published) > maxHistory
  /\ Len(sniffer.server.packetHistory) = maxHistory
  /\ sniffer.server.packetHistory[1].seq = 2

\* ------------------------------------------------------------------------
\* Decode errors
\* ------------------------------------------------------------------------

IsDecodeError(e) == e.text = "Decode error"

\* C10: a frame that fails to decode makes no packet (the log has one entry
\* per frame, the groups and the history have the packets of its "packet"
\* entries and no more); its error is reported with the frame's bytes; and
\* the frames after it are decoded.
C10_DecodeErrorsReportedWithBytes ==
  /\ mode \in {"cli", "gui"} =>
        /\ RawOf(sniffer.rawLog) = frames
        /\ sniffer.grouper.totalPackets
             = Len(SelectSeq(sniffer.rawLog, IsPacketEntry))
        /\ mode = "gui" =>
              RawOf(sniffer.server.published)
                = RawOf(SelectSeq(sniffer.rawLog, IsPacketEntry))
  /\ mode = "analyzer" =>
        /\ Len(analyzer.packets) + Len(SelectSeq(analyzer.errors, IsDecodeError))
             = Len(frames)
        /\ \A i \in 1..Len(analyzer.errors) :
              IsDecodeError(analyzer.errors[i]) =>
                /\ "rawData" \in DOMAIN analyzer.errors[i]
                /\ analyzer.errors[i].rawData \in
                     {frames[j] : j \in 1..Len(frames)}

\* ------------------------------------------------------------------------
\* The first event, resync reports, CRC failures
\* ------------------------------------------------------------------------

\* C11: the first message a socket is sent is {type: "init", viewMode,
\* packets} with the history of that moment, and every message after it is a
\* per-packet event.
C11_FirstEventIsInit ==
  \A c \in Sockets :
    sniffer.server.inbox[c] # <<>> =>
      /\ sniffer.server.inbox[c][1].type = "init"
      /\ "viewMode" \in DOMAIN sniffer.server.inbox[c][1]
      /\ \A i \in 2..Len(sniffer.server.inbox[c]) :
            IsLive(sniffer.server.inbox[c][i])

\* The bytes in the frames cut out so far.
RECURSIVE BytesIn(_)
BytesIn(fs) == IF fs = <<>> THEN 0 ELSE Len(Head(fs)) + BytesIn(Tail(fs))

\* The bytes discarded so far: delivered, in no frame and not carried.
Discarded == pos - BytesIn(frames) - Len(Carried)

\* The bytes that analyzeBuffer's "Skipped n bytes" errors account for.
RECURSIVE SkippedIn(_)
SkippedIn(errors) ==
  IF errors = <<>> THEN 0
  ELSE (IF IsDecodeError(Head(errors)) THEN 0 ELSE Head(errors).n)
       + SkippedIn(Tail(errors))

\* C12: every byte the analyzer discards is in a resync report: the reports'
\* byte counts add up to the bytes discarded.
C12_DiscardedBytesReported ==
  mode = "analyzer" => SkippedIn(analyzer.errors) = Discarded

\* The stream is made of frames only, valid or with a bad CRC.
FramesOnly ==
  \A k \in 1..Len(scenario) : scenario[k] \in {"Minimal", "Enum", "BadCrc"}

\* C13: in a stream of frames, each frame cut out is the next frame of the
\* stream, whole, whether or not it decodes: a failed frame takes its declared
\* bytes, nothing is discarded or skipped over, and what is carried is the
\* start of the frame that follows.
C13_FailedFrameTakesDeclaredBytes ==
  FramesOnly =>
    /\ Len(frames) <= Len(scenario)
    /\ \A k \in 1..Len(frames) :
          /\ frames[k] = Segment(scenario[k])
          /\ Len(frames[k]) = Declared(frames[k])
    /\ Discarded = 0
    /\ mode = "analyzer" => SkippedIn(analyzer.errors) = 0
    /\ Carried = SubSeq(stream, BytesIn(frames) + 1, pos)

\* A frame was cut out right after one that failed its CRC check.
C13_Witness ==
  /\ scenario = <<"Enum", "BadCrc", "Minimal">>
  /\ mode = "analyzer"
  /\ Len(frames) = 3
  /\ Len(analyzer.packets) = 2
  /\ Len(SelectSeq(analyzer.errors, IsDecodeError)) = 1

\* The u16 stored at [len - 3, len - 1).
StoredCrc(raw) == raw[Len(raw) - 2] * 256 + raw[Len(raw) - 1]

\* Well formed but for the CRC.
BadCrcOnly(raw) ==
  /\ Len(raw) >= MinFrameLen
  /\ Len(raw) <= MaxFrameLen
  /\ raw[1] = NASA_START_BYTE
  /\ raw[Len(raw)] = NASA_END_BYTE
  /\ Len(raw) = raw[2] * 256 + raw[3] + 2
  /\ CrcRef(SubSeq(raw, 4, Len(raw) - 3)) # StoredCrc(raw)

\* C14: a frame that is well formed but for its CRC is refused with a CRC
\* error whose expected is the u16 stored in the frame and whose actual is
\* the CRC recomputed over [3, len - 3); no message is decoded.
C14_CrcErrorCarriesBothCrcs ==
  \A i \in 1..Len(result) :
    BadCrcOnly(input) =>
      /\ ~result[i].success
      /\ result[i].error = "CRC error"
      /\ result[i].crcExpected = StoredCrc(input)
      /\ result[i].crcActual = CrcRef(SubSeq(input, 4, Len(input) - 3))
      /\ result[i].packet.messages = <<>>

\* A frame with a record and a wrong CRC has been refused.
C14_Witness ==
  /\ result # <<>>
  /\ BadCrcOnly(input)
  /\ Len(input) > MinFrameLen
  /\ result[1].error = "CRC error"

\* ------------------------------------------------------------------------
\* The packet analysers on their own: the PacketGrouper of index.js and the
\* report state of the Logger, each given decoded packets one at a time
\* ------------------------------------------------------------------------

MaxObserved == 3

\* The calls of start in a run.
MaxStarts == 2

\* The packets broadcast in the life of a WebSocketServer.
MaxBroadcasts == 2

\* The packets on the page.
MaxListed == 3

\* The connection timeouts of a TcpInterface yet to fire.
MaxTimeouts == 2

\* The length of the small buffers given to the reassembling loops.
MaxBuffer == 5

\* The shutdown triggers of a run.
MaxTriggers == 3

\* Frames that differ from Base in one thing each.  Values and Command keep
\* the source, the destination, the data type and the message numbers of
\* Base; the others change one of these.
GroupNames == {"Base", "Values", "Command", "DataType", "Source", "Order"}

\* Frames that differ in one part of the signature each; the data types of
\* Type8 and Type9 are 8 and 9, of the values that have no name.
SignatureNames == {"Base", "DataType", "Source", "Order", "Type8", "Type9"}

GroupPayload(name) ==
  CASE name = "Base" ->
         <<32, 0, 0, 80, 0, 0, 192, 20, 5, 2, 64, 0, 1, 66, 1, 0, 250>>
    [] name = "Values" ->
         <<32, 0, 0, 80, 0, 0, 192, 20, 5, 2, 64, 0, 2, 66, 1, 255, 246>>
    [] name = "Command" ->
         <<32, 0, 0, 80, 0, 0, 168, 36, 6, 2, 64, 0, 1, 66, 1, 0, 250>>
    [] name = "DataType" ->
         <<32, 0, 0, 80, 0, 0, 192, 21, 5, 2, 64, 0, 1, 66, 1, 0, 250>>
    [] name = "Source" ->
         <<32, 0, 1, 80, 0, 0, 192, 20, 5, 2, 64, 0, 1, 66, 1, 0, 250>>
    [] name = "Order" ->
         <<32, 0, 0, 80, 0, 0, 192, 20, 5, 2, 66, 1, 0, 250, 64, 0, 1>>
    [] name = "Type8" ->
         <<32, 0, 0, 80, 0, 0, 192, 24, 5, 2, 64, 0, 1, 66, 1, 0, 250>>
    [] name = "Type9" ->
         <<32, 0, 0, 80, 0, 0, 192, 25, 5, 2, 64, 0, 1, 66, 1, 0, 250>>

GroupFrame(name) ==
  Framed(GroupPayload(name), Len(GroupPayload(name)) + 4,
         CrcRef(GroupPayload(name)), "none")

\* What Packet.decode makes of each frame at time 0, and at time t: the time
\* of the decode is the packet's timestamp and nothing else of it.
GroupPackets ==
  [name \in GroupNames \cup SignatureNames |->
     PacketDecode(GroupFrame(name), 0).packet]

DecodedAt(name, t) == [GroupPackets[name] EXCEPT !.timestamp = t]

\* processPacketData on each of packets[i..] in turn, as far as the grouper
\* goes.
RECURSIVE AddPackets(_, _, _)
AddPackets(grouper, packets, i) ==
  IF grouper.totalPackets \notin Int \/ i > Len(packets) THEN grouper
  ELSE AddPackets(addPacket(grouper, packets[i]), packets, i + 1)

RECURSIVE LogPackets(_, _, _)
LogPackets(log, packets, i) ==
  IF log.totalPackets \notin Int \/ i > Len(packets) THEN log
  ELSE LogPackets(logPacket(log, packets[i]), packets, i + 1)

\* A new analyser, or one that has seen the Base packet nine times: one
\* short of the ten occurrences a report still lists.
InitGroups ==
  /\ mode \in {"grouper", "logger"}
  /\ scenario = <<>>
  /\ pos = 0
  /\ clock = 0
  /\ analyzer = NewAnalyzer
  /\ frames = <<>>
  /\ input = <<>>
  /\ result = <<>>
  /\ \E warm \in {0, 9} :
        /\ observed =
             [packets |-> [i \in 1..warm |-> DecodedAt("Base", 0)],
              call |-> "new"]
        /\ sniffer = [NewSniffer(FALSE) EXCEPT
                        !.grouper = IF mode = "grouper"
                                      THEN AddPackets(@, observed.packets, 1)
                                      ELSE @]
        /\ logger = IF mode = "logger"
                      THEN LogPackets(NewLogger, observed.packets, 1)
                      ELSE NewLogger
  /\ session = NewSession
  /\ client = NewClient
  /\ transport = NewTcpInterface
  /\ main = NewMain

\* A report leaves the analyser as it is: a run is followed up to its first
\* report.
NoReportYet == result = <<>>

Observed(packet) ==
  observed' = [packets |-> Append(observed.packets, packet),
               call |-> "observe"]

\* this.grouper.addPacket(packet) on the packet decoded at time t from the
\* frame called name.
AddPacket(name, t) ==
  /\ mode = "grouper"
  /\ pos < MaxObserved
  /\ NoReportYet
  /\ sniffer' = [sniffer EXCEPT !.grouper = addPacket(@, DecodedAt(name, t))]
  /\ Observed(DecodedAt(name, t))
  /\ pos' = pos + 1
  /\ clock' = t
  /\ UNCHANGED <<mode, scenario, analyzer, frames, input, result, logger,
                 session, client, transport, main>>

\* logger.logPacket(packet).
LogPacket(name, t) ==
  /\ mode = "logger"
  /\ pos < MaxObserved
  /\ NoReportYet
  /\ logger' = logPacket(logger, DecodedAt(name, t))
  /\ Observed(DecodedAt(name, t))
  /\ pos' = pos + 1
  /\ clock' = t
  /\ UNCHANGED <<mode, scenario, sniffer, analyzer, frames, input, result,
                 session, client, transport, main>>

\* grouper.reset().
ResetGrouper ==
  /\ mode = "grouper"
  /\ NoReportYet
  /\ sniffer' = [sniffer EXCEPT !.grouper = reset(@)]
  /\ observed' = [packets |-> <<>>, call |-> "reset"]
  /\ UNCHANGED <<mode, scenario, pos, clock, analyzer, frames, input, result,
                 logger, session, client, transport, main>>

\* logger.reset(): nothing is emptied.
ResetLogger ==
  /\ mode = "logger"
  /\ NoReportYet
  /\ logger' = LoggerReset(logger)
  /\ observed' = [observed EXCEPT !.call = "reset"]
  /\ UNCHANGED <<mode, scenario, pos, clock, sniffer, analyzer, frames,
                 input, result, session, client, transport, main>>

\* saveReport(): this.grouper.generateReport().
SaveReport ==
  /\ mode = "grouper"
  /\ NoReportYet
  /\ result' = <<generateReport(sniffer.grouper)>>
  /\ observed' = [observed EXCEPT !.call = "report"]
  /\ UNCHANGED <<mode, scenario, pos, clock, sniffer, analyzer, frames,
                 input, logger, session, client, transport, main>>

\* exportReport(): this._generateReport().
ExportReport ==
  /\ mode = "logger"
  /\ NoReportYet
  /\ result' = <<_generateReport(logger)>>
  /\ observed' = [observed EXCEPT !.call = "report"]
  /\ UNCHANGED <<mode, scenario, pos, clock, sniffer, analyzer, frames,
                 input, logger, session, client, transport, main>>

NextGroups ==
  \/ \E name \in GroupNames, t \in Times : AddPacket(name, t)
  \/ \E name \in GroupNames, t \in Times : LogPacket(name, t)
  \/ ResetGrouper
  \/ ResetLogger
  \/ SaveReport
  \/ ExportReport

SpecGroups == InitGroups /\ [][NextGroups]_vars

\* The groups of the analyser under study.
Groups ==
  IF mode = "logger" THEN logger.packetGroups ELSE sniffer.grouper.groups

Total ==
  IF mode = "logger" THEN logger.totalPackets ELSE sniffer.grouper.totalPackets

GroupsMode == mode \in {"grouper", "logger"}

\* ------------------------------------------------------------------------
\* Groups, signatures, reports, reset
\* ------------------------------------------------------------------------

\* The observed packets that have a signature, in the order observed.
WithSignature(signature) ==
  SelectSeq(observed.packets, LAMBDA p : GetSignature(p) = signature)

GroupReflects(group) ==
  LET own == WithSignature(group.signature)
  IN  /\ own # <<>>
      /\ group.examplePacket = own[1]
      /\ group.firstSeen = own[1].timestamp
      /\ group.count = Len(own)
      /\ group.lastSeen = own[Len(own)].timestamp
      /\ group.allPackets = own

\* C15: each group reflects exactly the observed packets with its signature:
\* there is one group for each signature observed, its example and first-seen
\* time are those of the first such packet, its count is their number and its
\* last-seen time is that of the latest; the total counts every packet.
C15_GroupsReflectObserved ==
  GroupsMode =>
    /\ \A i \in 1..Len(observed.packets) :
         GroupIndex(Groups, GetSignature(observed.packets[i])) # 0
    /\ \A i, j \in 1..Len(Groups) :
         Groups[i].signature = Groups[j].signature => i = j
    /\ \A i \in 1..Len(Groups) : GroupReflects(Groups[i])
    /\ Total = Len(observed.packets)

C15_Witness ==
  /\ GroupsMode
  /\ observed.call = "observe"
  /\ Len(Groups) = 2
  /\ \E i \in 1..2 :
       /\ Groups[i].count = 2
       /\ Groups[i].firstSeen < Groups[i].lastSeen
       /\ Groups[i].examplePacket = observed.packets[1]
       /\ Groups[i].examplePacket # observed.packets[3]
       /\ GetSignature(observed.packets[2]) # Groups[i].signature

MessageNumbers(packet) ==
  [i \in 1..Len(packet.messages) |-> packet.messages[i].messageNumber]

SameKey(p, q) ==
  /\ p.sa = q.sa
  /\ p.da = q.da
  /\ p.command.dataType = q.command.dataType
  /\ MessageNumbers(p) = MessageNumbers(q)

InOneGroup(p, q) ==
  \E i \in 1..Len(Groups) :
    \E k, l \in 1..Len(Groups[i].allPackets) :
      Groups[i].allPackets[k] = p /\ Groups[i].allPackets[l] = q

\* C16: two observed packets with the same source, destination, data type
\* and message numbers in the same order have the same signature and are in
\* the same group, whatever else they differ in.
C16_SignatureIgnoresTheRest ==
  GroupsMode =>
    \A i, j \in 1..Len(observed.packets) :
      SameKey(observed.packets[i], observed.packets[j]) =>
        /\ GetSignature(observed.packets[i]) = GetSignature(observed.packets[j])
        /\ InOneGroup(observed.packets[i], observed.packets[j])

C16_Witness ==
  /\ GroupsMode
  /\ Len(Groups) = 1
  /\ Groups[1].count = 3
  /\ \E p, q, r \in {observed.packets[i] : i \in 1..Len(observed.packets)} :
       /\ p.timestamp # r.timestamp
       /\ p.messages # q.messages
       /\ p.command.packetNumber # r.command.packetNumber
       /\ p.command.packetType # r.command.packetType
       /\ p.command.protocolVersion # r.command.protocolVersion
       /\ p.command.retryCount # r.command.retryCount

\* The report in hand.
HasReport == GroupsMode /\ result # <<>>

report == result[1]

\* C17: a report lists every group once, by count descending, and groups of
\* equal count by first-seen time ascending.
C17_ReportSortedByCount ==
  HasReport =>
    /\ Len(report.groups) = Len(Groups)
    /\ \A i \in 1..Len(Groups) :
         \E k \in 1..Len(report.groups) :
           report.groups[k].signature = Groups[i].signature
    /\ \A i, j \in 1..Len(report.groups) :
         i < j =>
           /\ report.groups[i].occurrences >= report.groups[j].occurrences
           /\ report.groups[i].occurrences = report.groups[j].occurrences
                => report.groups[i].firstSeen <= report.groups[j].firstSeen

\* A group created later, seen more often, is listed first; the two groups
\* seen equally often are listed as first seen.
C17_Witness ==
  /\ HasReport
  /\ Len(report.groups) = 3
  /\ report.groups[1].signature = Groups[1].signature
  /\ report.groups[2].signature = Groups[3].signature
  /\ report.groups[3].signature = Groups[2].signature
  /\ report.groups[2].occurrences > report.groups[3].occurrences

\* C18: for every group a report gives exactly one of: the timestamps of all
\* its occurrences, when there are ten or fewer (one included), and the line
\* that they are too many, when there are more.
C18_TimestampsOrTooMany ==
  HasReport =>
    \A k \in 1..Len(report.groups) :
      /\ Len(report.groups[k].lines) = 1
      /\ IF report.groups[k].occurrences <= 10
           THEN /\ "timestamps" \in DOMAIN report.groups[k].lines[1]
                /\ Len(report.groups[k].lines[1].timestamps)
                     = report.groups[k].occurrences
           ELSE "total" \in DOMAIN report.groups[k].lines[1]

\* C19: after reset the analyser has no group and a total of 0, the grouper
\* and the logger alike.
C19_ResetEmptiesAnalyser ==
  (GroupsMode /\ observed.call = "reset") => (Groups = <<>> /\ Total = 0)

\* ------------------------------------------------------------------------
\* Message values and their readable form: Packet.decode and
\* getReadableValue on frames of one message
\* ------------------------------------------------------------------------

\* The bytes a value is made of.
ValueBytes == {0, 127, 128, 246, 255}

\* One record each: a temperature and a sensor Variable of every two value
\* bytes, a LongVariable, the Enums that getReadableValue names, and a
\* Structure of two bytes.
ValueRecords ==
  {<<66, n, hi, lo>> : n \in {1, 3}, hi \in ValueBytes, lo \in ValueBytes}
  \cup {<<130, 4, hi, lo>> : hi \in {0, 255}, lo \in ValueBytes}
  \cup {<<132, 19, b3, b2, b1, b0>> :
          b3 \in ValueBytes, b2 \in {0, 255}, b1 \in {0, 255}, b0 \in {0, 246}}
  \cup {<<64, n, v>> : n \in {0, 1, 6, 17}, v \in {0, 1, 4, 5}}
  \cup {<<6, 0, a, b>> : a \in {1, 2}, b \in {0, 255}}

ValueFrame(record) ==
  Framed(Header \o <<1>> \o record, Len(record) + 14,
         CrcRef(Header \o <<1>> \o record), "none")

InitValues ==
  /\ mode = "values"
  /\ scenario = <<>>
  /\ pos = 0
  /\ clock = 0
  /\ sniffer = NewSniffer(FALSE)
  /\ analyzer = NewAnalyzer
  /\ frames = <<>>
  /\ input \in {ValueFrame(record) : record \in ValueRecords}
  /\ result = <<>>
  /\ logger = NewLogger
  /\ observed = NoneObserved
  /\ session = NewSession
  /\ client = NewClient
  /\ transport = NewTcpInterface
  /\ main = NewMain

\* The decoded packet is shown: msg.getReadableValue() of each message.
Show ==
  /\ Len(result) = 1
  /\ result[1].success
  /\ result' = Append(result,
                      [i \in 1..Len(result[1].packet.messages) |->
                         getReadableValue(result[1].packet.messages[i])])
  /\ UNCHANGED <<mode, scenario, pos, clock, sniffer, analyzer, frames,
                 input, logger, observed, session, client, transport, main>>

NextValues ==
  \/ \E t \in Times : Decode(t)
  \/ Show

SpecValues == InitValues /\ [][NextValues]_vars

\* The two's-complement reading of two and of four bytes.
Signed16(hi, lo) ==
  IF hi >= 128 THEN (hi - 256) * 256 + lo ELSE hi * 256 + lo

Signed32(b3, b2, b1, b0) ==
  (IF b3 >= 128 THEN b3 - 256 ELSE b3) * 16777216
  + b2 * 65536 + b1 * 256 + b0

\* The message of the frame in hand, once decoded, and what was shown of it.
DecodedValue == mode = "values" /\ result # <<>> /\ result[1].success

message == result[1].packet.messages[1]

\* C20: a Variable's value is its two payload bytes read as a signed 16-bit
\* number, a LongVariable's its four bytes read as a signed 32-bit number,
\* and a temperature is shown as that signed value in tenths of a degree.
C20_ValuesAreSigned ==
  DecodedValue =>
    /\ message.type = MsgVariable =>
         message.value = Signed16(input[16], input[17])
    /\ message.type = MsgLongVariable =>
         message.value = Signed32(input[16], input[17], input[18], input[19])
    /\ (Len(result) = 2 /\ message.messageNumber \in NamesWithTemp) =>
         result[2][1] = Celsius(Signed16(input[16], input[17]))

\* ------------------------------------------------------------------------
\* Address and Command on their own: encode, then decode the bytes
\* ------------------------------------------------------------------------

\* The values a whole byte takes in the objects encoded.
FieldBytes == {0, 1, 127, 128, 255}

Addresses ==
  [klass : FieldBytes, channel : FieldBytes, address : FieldBytes]

Commands ==
  [packetInformation : BOOLEAN, protocolVersion : 0..3, retryCount : 0..3,
   packetType : 0..15, dataType : 0..15, packetNumber : {0, 128, 255}]

\* input is the object in hand, result what was made of it so far: the
\* bytes, then the object decoded from them.
InitCodec ==
  /\ mode = "codec"
  /\ scenario = <<>>
  /\ pos = 0
  /\ clock = 0
  /\ sniffer = NewSniffer(FALSE)
  /\ analyzer = NewAnalyzer
  /\ frames = <<>>
  /\ input \in ({"address"} \X Addresses) \cup ({"command"} \X Commands)
  /\ result = <<>>
  /\ logger = NewLogger
  /\ observed = NoneObserved
  /\ session = NewSession
  /\ client = NewClient
  /\ transport = NewTcpInterface
  /\ main = NewMain

Coded(r) ==
  /\ result' = r
  /\ UNCHANGED <<mode, scenario, pos, clock, sniffer, analyzer, frames,
                 input, logger, observed, session, client, transport, main>>

\* address.encode()
EncodeAddress ==
  /\ input[1] = "address"
  /\ result = <<>>
  /\ Coded(<<AddressEncode(input[2])>>)

\* new Address().decode(bytes, 0)
DecodeAddress ==
  /\ input[1] = "address"
  /\ Len(result) = 1
  /\ Coded(Append(result, AddressDecode(result[1], 0)))

\* command.encode()
EncodeCommand ==
  /\ input[1] = "command"
  /\ result = <<>>
  /\ Coded(<<CommandEncode(input[2])>>)

\* new Command().decode(bytes, 0)
DecodeCommand ==
  /\ input[1] = "command"
  /\ Len(result) = 1
  /\ Coded(Append(result, CommandDecode(result[1], 0)))

NextCodec ==
  \/ EncodeAddress
  \/ DecodeAddress
  \/ EncodeCommand
  \/ DecodeCommand

SpecCodec == InitCodec /\ [][NextCodec]_vars

OnWire == SubSeq(input, 14, Len(input) - 3)

\* The payload length of a kind, for a record at index in data.
PayloadOf(kind, data, index) ==
  CASE kind = MsgEnum -> 1
    [] kind = MsgVariable -> 2
    [] kind = MsgLongVariable -> 4
    [] OTHER -> Len(data) - 3 - (index + 2)

\* What MessageSet.decode makes of each record of the family.
DecodedRecords ==
  [record \in ValueRecords |-> MessageSetDecode(ValueFrame(record), 13)]

\* C22: a decoded record takes 2 + the payload length of its kind, its kind
\* is (message number & 0x0600) >> 9, and the record determines its bytes on
\* the wire: no other record decodes to the same.
C22_RecordSizeAndBytes ==
  DecodedValue =>
    /\ message.type = (BitAnd(message.messageNumber, 1536) \div 512)
    /\ message.size = 2 + PayloadOf(message.type, input, 13)
    /\ message.size = Len(OnWire)
    /\ result[1].cursor = 13 + message.size
    /\ \A record \in ValueRecords :
         DecodedRecords[record] = message => record = OnWire

\* ------------------------------------------------------------------------
\* Frames of the minimum length through the pipeline, each arriving whole
\* ------------------------------------------------------------------------

\* Source, destination and command bytes; some hold the start and the end
\* byte.
MinimalSources == {<<0, 0, 0>>, <<32, 0, 0>>, <<50, 52, 50>>}

MinimalDestinations == {<<0, 0, 0>>, <<80, 0, 1>>, <<52, 50, 255>>}

MinimalCommands == {<<0, 0, 0>>, <<192, 20, 5>>, <<255, 255, 255>>, <<50, 50, 50>>}

\* Capacity 0 and no record.
MinimalFrame(sa, da, command) ==
  Framed(sa \o da \o command \o <<0>>, 14,
         CrcRef(sa \o da \o command \o <<0>>), "none")

MinimalFrames ==
  {MinimalFrame(sa, da, command) :
     sa \in MinimalSources, da \in MinimalDestinations,
     command \in MinimalCommands}

InitMinimal ==
  /\ mode \in {"cli", "gui", "analyzer"}
  /\ scenario = <<>>
  /\ pos = 0
  /\ clock = 0
  /\ sniffer = NewSniffer(mode = "gui")
  /\ analyzer = NewAnalyzer
  /\ frames = <<>>
  /\ input \in MinimalFrames
  /\ result = <<>>
  /\ logger = NewLogger
  /\ observed = NoneObserved
  /\ session = NewSession
  /\ client = NewClient
  /\ transport = NewTcpInterface
  /\ main = NewMain

\* port.on("data") with the whole frame, at time t.
FrameData(t) ==
  /\ mode \in {"cli", "gui"}
  /\ pos = 0
  /\ Handled(handleIncomingData(sniffer, input, t))
  /\ pos' = Len(input)
  /\ clock' = t
  /\ UNCHANGED <<mode, scenario, analyzer, input, result, logger, observed,
                 session, client, transport, main>>

\* analyzeBuffer on the whole frame, at time t.
FrameAnalyze(t) ==
  /\ mode = "analyzer"
  /\ pos = 0
  /\ Analyzed(analyzeBuffer(analyzer.buffer \o input, t))
  /\ pos' = Len(input)
  /\ clock' = t
  /\ UNCHANGED <<mode, scenario, sniffer, input, result, logger, observed,
                 session, client, transport, main>>

NextMinimal ==
  \/ \E t \in Times : FrameData(t)
  \/ \E t \in Times : FrameAnalyze(t)

SpecMinimal == InitMinimal /\ [][NextMinimal]_vars

\* The fields that bytes 3..11 of the frame in hand spell out.
FieldsOf(raw) ==
  [sa |-> [klass |-> raw[4], channel |-> raw[5], address |-> raw[6]],
   da |-> [klass |-> raw[7], channel |-> raw[8], address |-> raw[9]],
   command |-> [packetInformation |-> raw[10] >= 128,
                protocolVersion |-> (raw[10] \div 32) % 4,
                retryCount |-> (raw[10] \div 8) % 4,
                packetType |-> raw[11] \div 16,
                dataType |-> raw[11] % 16,
                packetNumber |-> raw[12]]]

IsMinimalPacket(packet) ==
  /\ packet.messages = <<>>
  /\ packet.sa = FieldsOf(input).sa
  /\ packet.da = FieldsOf(input).da
  /\ packet.command = FieldsOf(input).command
  /\ packet.rawData = input

MinimalFed == Len(input) = MinFrameLen /\ pos = Len(input) /\ scenario = <<>>

\* C23: a well-formed frame of 16 bytes gives exactly one packet, with no
\* message and with the source, destination and command of bytes 3..11, no
\* decode error and no resync report, and nothing is left in the buffer.
C23_MinimalFrameDecodes ==
  MinimalFed =>
    /\ frames = <<input>>
    /\ mode = "analyzer" =>
         /\ Len(analyzer.packets) = 1
         /\ IsMinimalPacket(analyzer.packets[1])
         /\ analyzer.errors = <<>>
         /\ analyzer.buffer = <<>>
    /\ mode \in {"cli", "gui"} =>
         /\ sniffer.grouper.totalPackets = 1
         /\ Len(sniffer.grouper.groups) = 1
         /\ IsMinimalPacket(sniffer.grouper.groups[1].examplePacket)
         /\ sniffer.rawLog = <<[kind |-> "packet", error |-> "",
                                rawData |-> input]>>
         /\ sniffer.responseBuffer = <<>>
    /\ mode = "gui" => Len(sniffer.server.packetHistory) = 1

\* A minimal frame whose header holds the start and the end byte went
\* through the analyzer.
C23_Witness ==
  /\ MinimalFed
  /\ mode = "analyzer"
  /\ input = MinimalFrame(<<50, 52, 50>>, <<52, 50, 255>>, <<192, 20, 5>>)
  /\ Len(analyzer.packets) = 1


\* ------------------------------------------------------------------------
\* The life of the WebSocketServer: start, connections, broadcasts, close
\* ------------------------------------------------------------------------

SessionSockets == {"ws1", "ws2"}

SessionServer ==
  [NewServer EXCEPT !.readyState = [c \in SessionSockets |-> "NONE"],
                    !.inbox = [c \in SessionSockets |-> <<>>]]

InitSession ==
  /\ mode = "session"
  /\ scenario = "none"
  /\ pos = 0
  /\ clock = 0
  /\ sniffer = [NewSniffer(TRUE) EXCEPT !.server = SessionServer]
  /\ analyzer = NewAnalyzer
  /\ frames = <<>>
  /\ input = <<>>
  /\ result = <<>>
  /\ logger = NewLogger
  /\ observed = NoneObserved
  /\ session = NewSession
  /\ client = NewClient
  /\ transport = NewTcpInterface
  /\ main = NewMain

SessionRest ==
  UNCHANGED <<mode, scenario, clock, analyzer, frames, input, result, logger,
              observed, client, transport, main>>

Start ==
  /\ session.close = "no"
  /\ session.started + session.rejected < MaxStarts
  /\ session' = start(session)
  /\ UNCHANGED <<pos, sniffer>>
  /\ SessionRest

Listening ==
  /\ session.listening
  /\ session.started = 0
  /\ session' = listenCallback(session)
  /\ UNCHANGED <<pos, sniffer>>
  /\ SessionRest

\* The WebSocket server takes connections while its http server listens and
\* it was not closed.
SessionConnect(c) ==
  /\ ~main.exited
  /\ session.listening
  /\ session.wss = "RUNNING"
  /\ sniffer.server.readyState[c] = "NONE"
  /\ sniffer' = [sniffer EXCEPT !.server = onConnection(@, c)]
  /\ session' = [session EXCEPT !.last = <<"connection", c>>]
  /\ UNCHANGED pos
  /\ SessionRest

SessionPublish ==
  /\ pos < MaxBroadcasts
  /\ pos' = pos + 1
  /\ sniffer' = [sniffer EXCEPT
                   !.server = broadcastPacket(@, DecodedAt("Base", clock))]
  /\ session' = [session EXCEPT !.last = <<"publish">>]
  /\ SessionRest

\* The socket's closing handshake starts: it is no longer OPEN.
ClientBeginClose(c) ==
  /\ sniffer.server.readyState[c] = "OPEN"
  /\ sniffer' = [sniffer EXCEPT !.server.readyState[c] = "CLOSING"]
  /\ session' = [session EXCEPT !.last = <<"closing", c>>]
  /\ UNCHANGED pos
  /\ SessionRest

\* The socket's close and error events, in any order and number once the
\* handlers are registered.
ClientClose(c) ==
  /\ ~main.exited
  /\ sniffer.server.readyState[c] # "NONE"
  /\ sniffer' = [sniffer EXCEPT !.server = onClose(@, c)]
  /\ session' = [session EXCEPT !.last = <<"close", c>>]
  /\ UNCHANGED pos
  /\ SessionRest

ClientError(c) ==
  /\ sniffer.server.readyState[c] # "NONE"
  /\ sniffer' = [sniffer EXCEPT !.server = onError(@, c)]
  /\ session' = [session EXCEPT !.last = <<"error", c>>]
  /\ UNCHANGED pos
  /\ SessionRest

Close ==
  /\ session.started > 0
  /\ session.close = "no"
  /\ sniffer' = [sniffer EXCEPT !.server = closeClients(@)]
  /\ session' = closeServers(session)
  /\ UNCHANGED pos
  /\ SessionRest

WssClosed ==
  /\ ~main.exited
  /\ session.close = "wss"
  /\ session' = wssCloseCallback(session)
  /\ UNCHANGED <<pos, sniffer>>
  /\ SessionRest

\* The http server is closed once the connections it had are all gone.
HttpClosed ==
  /\ ~main.exited
  /\ session.close = "http"
  /\ \A c \in SessionSockets :
       sniffer.server.readyState[c] \in {"NONE", "CLOSED"}
  /\ session' = httpCloseCallback(session)
  /\ UNCHANGED <<pos, sniffer>>
  /\ SessionRest

ForceClose ==
  /\ ~main.exited
  /\ session.forceTimer
  /\ session' = forceClose(session)
  /\ UNCHANGED <<pos, sniffer>>
  /\ SessionRest

NextSession ==
  \/ Start
  \/ Listening
  \/ \E c \in SessionSockets : SessionConnect(c)
  \/ SessionPublish
  \/ \E c \in SessionSockets : ClientBeginClose(c)
  \/ \E c \in SessionSockets : ClientClose(c)
  \/ \E c \in SessionSockets : ClientError(c)
  \/ Close
  \/ WssClosed
  \/ HttpClosed
  \/ ForceClose

SpecSession == InitSession /\ [][NextSession]_vars

\* C24: start on a WebSocketServer that is running already is idempotent:
\* it raises no error (the promise it returns is not rejected).
C24_StartOnRunningRaisesNoError ==
  session.last # <<"start", "running", "rejected">>


\* The callback of wss.close is called on the next tick and the one-second
\* timer fires: neither waits for anything.
SpecSessionFair ==
  SpecSession /\ WF_vars(WssClosed) /\ WF_vars(ForceClose)

CloseCalled == session.close # "no"

\* A step that ends with close called leaves no subscriber in the set and
\* delivers nothing.
NothingDelivered ==
  CloseCalled' =>
    /\ sniffer'.server.clients = {}
    /\ sniffer'.server.inbox = sniffer.server.inbox

Stopped ==
  /\ session.resolved
  /\ session.wss = "CLOSED"
  /\ ~session.listening
  /\ sniffer.server.clients = {}

\* C25: once close has been called on the WebSocketServer no subscriber is
\* added to the set and nothing is delivered to any subscriber, whatever
\* connections and broadcasts come with it, and the server ends stopped,
\* its promise resolved, with an empty subscriber set.
C25_CloseStopsDelivery ==
  /\ [][NothingDelivered]_vars
  /\ [](session.resolved => Stopped)
  /\ (CloseCalled ~> Stopped)

\* A packet was broadcast after closing a server that had a subscriber,
\* who was sent the history and nothing else.
C25_Witness ==
  /\ session.last = <<"publish">>
  /\ CloseCalled
  /\ \E c \in SessionSockets :
       /\ sniffer.server.readyState[c] = "CLOSING"
       /\ Len(sniffer.server.inbox[c]) = 1


Detached(c) == session'.last \in {<<"close", c>>, <<"error", c>>}

\* The step takes c out of the set, or leaves it out, and nothing else.
Silent(c) ==
  /\ c \notin sniffer'.server.clients
  /\ sniffer'.server.clients = sniffer.server.clients \ {c}
  /\ sniffer'.server.packetHistory = sniffer.server.packetHistory
  /\ sniffer'.server.published = sniffer.server.published
  /\ sniffer'.server.inbox = sniffer.server.inbox
  /\ \A d \in SessionSockets \ {c} :
       sniffer'.server.readyState[d] = sniffer.server.readyState[d]
  /\ session' = [session EXCEPT !.last = session'.last]

\* Nothing is sent to a socket that is not in the set.
NothingSentTo(c) ==
  c \notin sniffer'.server.clients =>
    sniffer'.server.inbox[c] = sniffer.server.inbox[c]

\* C26: a subscriber's close and error events, in any order and number,
\* leave it out of the subscriber set and change nothing else: not the
\* history, not the other subscribers, not what was sent; and a socket
\* that is not in the set is sent nothing more.
C26_DetachIsSilent ==
  [][\A c \in SessionSockets :
       /\ Detached(c) => Silent(c)
       /\ NothingSentTo(c)]_vars

\* The close event of ws1 comes after a broadcast that ws2 was sent and
\* ws1, detached already, was not.
C26_Witness ==
  /\ session.last = <<"close", "ws1">>
  /\ "ws2" \in sniffer.server.clients
  /\ Len(sniffer.server.inbox["ws1"]) = 1
  /\ Len(sniffer.server.inbox["ws2"]) = 2
  /\ sniffer.server.inbox["ws2"][1].type = "history"
  /\ sniffer.server.inbox["ws2"][1].packets = <<>>
  /\ sniffer.server.inbox["ws1"][1].packets = <<>>


\* ------------------------------------------------------------------------
\* The page: messages from the server, clicks on Clear and Pause
\* ------------------------------------------------------------------------

\* The packet lists of an init or history message; a packet is told by
\* its number.
Loaded == {<<>>, <<1>>, <<2>>, <<1, 2>>}

InitPage ==
  /\ mode = "page"
  /\ scenario = "none"
  /\ pos = 0
  /\ clock = 0
  /\ sniffer = NewSniffer(FALSE)
  /\ analyzer = NewAnalyzer
  /\ frames = <<>>
  /\ input = <<>>
  /\ result = <<>>
  /\ logger = NewLogger
  /\ observed = NoneObserved
  /\ session = NewSession
  /\ client = NewClient
  /\ transport = NewTcpInterface
  /\ main = NewMain

PageRest ==
  UNCHANGED <<mode, scenario, pos, clock, sniffer, analyzer, frames, input,
              result, logger, observed, session, transport, main>>

OnInit(viewMode, packets) ==
  /\ client' = onmessage(client, [type |-> "init", viewMode |-> viewMode,
                                  packets |-> packets])
  /\ PageRest

OnHistory(packets) ==
  /\ client' = onmessage(client, [type |-> "history", packets |-> packets])
  /\ PageRest

OnPacket(packet) ==
  /\ Len(client.packets) < MaxListed
  /\ client' = onmessage(client, [type |-> "packet", data |-> packet])
  /\ PageRest

ClickClear(confirmed) ==
  /\ client' = clearPackets(client, confirmed)
  /\ PageRest

ClickPause ==
  /\ client' = pause(client)
  /\ PageRest

NextPage ==
  \/ \E viewMode \in BOOLEAN, packets \in Loaded : OnInit(viewMode, packets)
  \/ \E packets \in Loaded : OnHistory(packets)
  \/ \E packet \in {1, 2} : OnPacket(packet)
  \/ \E confirmed \in BOOLEAN : ClickClear(confirmed)
  \/ ClickPause

SpecPage == InitPage /\ [][NextPage]_vars

\* C27: in view mode a click on Clear or on Pause changes nothing: the
\* packet list, the list shown and the pause state stay as they were.
C27_ViewModeRejectsClearAndPause ==
  [][(client.viewMode /\ client'.last \in {"clear", "pause"}) =>
       client' = [client EXCEPT !.last = client'.last]]_vars

\* Clear was clicked in view mode and the two packets of the init message
\* are still there.
C27_Witness ==
  /\ client.viewMode
  /\ client.last = "clear"
  /\ client.packets = <<1, 2>>
  /\ client.filteredPackets = <<1, 2>>


\* ------------------------------------------------------------------------
\* The TcpInterface feeding the sniffer: connects, data, disconnects
\* ------------------------------------------------------------------------

TransportFrames == {GroupFrame("Base"), GroupFrame("Values")}

InitTransport ==
  /\ mode = "tcp"
  /\ scenario = "none"
  /\ pos = 0
  /\ clock = 0
  /\ sniffer = NewSniffer(FALSE)
  /\ analyzer = NewAnalyzer
  /\ frames = <<>>
  /\ input \in TransportFrames
  /\ result = <<>>
  /\ logger = NewLogger
  /\ observed = NoneObserved
  /\ session = NewSession
  /\ client = NewClient
  /\ transport = NewTcpInterface
  /\ main = NewMain

TransportRest ==
  UNCHANGED <<mode, scenario, clock, analyzer, input, result, logger,
              observed, session, client, main>>

\* The program's call of connect().
TcpConnect ==
  /\ transport.client = "none"
  /\ transport.shouldReconnect
  /\ transport' = connect(transport)
  /\ UNCHANGED <<pos, sniffer, frames>>
  /\ TransportRest

TcpConnected ==
  /\ transport.client = "connecting"
  /\ transport' = onConnect(transport)
  /\ UNCHANGED <<pos, sniffer, frames>>
  /\ TransportRest

\* The next n bytes arrive; the listener of "data" is handleIncomingData.
TcpData(n) ==
  /\ transport.client = "open"
  /\ pos + n <= Len(input)
  /\ transport' = onData(transport, SubSeq(input, pos + 1, pos + n))
  /\ Handled(handleIncomingData(sniffer, SubSeq(input, pos + 1, pos + n),
                                clock))
  /\ pos' = pos + n
  /\ TransportRest

TcpError ==
  /\ transport.client \in {"connecting", "open"}
  /\ transport' = onSocketError(transport)
  /\ UNCHANGED <<pos, sniffer, frames>>
  /\ TransportRest

\* The peer ends the connection.
TcpEnd ==
  /\ transport.client = "open"
  /\ transport' = [transport EXCEPT !.client = "destroyed",
                                    !.emitted = <<>>, !.last = "end"]
  /\ UNCHANGED <<pos, sniffer, frames>>
  /\ TransportRest

\* The close handler clears the sniffer's buffer.
TcpClosedClearsBuffer ==
  /\ transport.client = "destroyed"
  /\ transport' = [onSocketClose(transport) EXCEPT
                     !.midFrame = @ \/ sniffer.responseBuffer # <<>>]
  /\ sniffer' = [sniffer EXCEPT !.responseBuffer = <<>>]
  /\ UNCHANGED <<pos, frames>>
  /\ TransportRest

\* The close event of the socket.
TcpClosed ==
  /\ transport.client = "destroyed"
  /\ transport' = [onSocketClose(transport) EXCEPT
                     !.midFrame = @ \/ sniffer.responseBuffer # <<>>]
  /\ UNCHANGED <<pos, sniffer, frames>>
  /\ TransportRest

\* The reconnect timer fires.
TcpReconnect ==
  /\ transport.reconnectTimer
  /\ Len(transport.timeouts) < MaxTimeouts
  /\ transport' = connect(transport)
  /\ UNCHANGED <<pos, sniffer, frames>>
  /\ TransportRest

\* A connection timeout fires.
TcpTimeout ==
  /\ transport.timeouts # <<>>
  /\ transport' = onTimeout(transport)
  /\ UNCHANGED <<pos, sniffer, frames>>
  /\ TransportRest

TcpClose ==
  /\ transport.shouldReconnect
  /\ transport' = tcpClose(transport)
  /\ UNCHANGED <<pos, sniffer, frames>>
  /\ TransportRest

NextTransport ==
  \/ TcpConnect
  \/ TcpConnected
  \/ \E n \in 1..MaxChunk : TcpData(n)
  \/ TcpError
  \/ TcpEnd
  \/ TcpClosed
  \/ TcpReconnect
  \/ TcpTimeout
  \/ TcpClose

SpecTransport == InitTransport /\ [][NextTransport]_vars


Arrived == SubSeq(input, 1, pos)

ErrorsLogged ==
  {i \in 1..Len(sniffer.rawLog) : sniffer.rawLog[i].kind = "ERROR"}

\* C28: a disconnect and reconnect of the transport leaves the sniffer's
\* buffer alone: the bytes of a frame that came before the disconnect are
\* kept, and with the bytes that come after the reconnect they are cut out
\* and decoded as one frame, with no decode error.
C28_BufferSurvivesReconnect ==
  mode = "tcp" =>
    /\ ErrorsLogged = {}
    /\ transport.buffer = Arrived
    /\ IF pos < Len(input)
         THEN /\ sniffer.responseBuffer = Arrived
              /\ frames = <<>>
              /\ sniffer.grouper.totalPackets = 0
         ELSE /\ sniffer.responseBuffer = <<>>
              /\ frames = <<input>>
              /\ sniffer.grouper.totalPackets = 1
              /\ sniffer.rawLog = <<[kind |-> "packet", error |-> "",
                                     rawData |-> input]>>

\* The frame was decoded and a socket was closed in the middle of it.
C28_Witness ==
  /\ mode = "tcp"
  /\ transport.midFrame
  /\ pos = Len(input)
  /\ sniffer.grouper.totalPackets = 1


\* The close event follows the destroying of a socket, and timers fire.
SpecTransportFair ==
  /\ SpecTransport
  /\ WF_vars(TcpClosed)
  /\ WF_vars(TcpReconnect)
  /\ WF_vars(TcpTimeout)

Open == transport.shouldReconnect

\* The close event of a socket of an interface that was not closed emits
\* disconnected, then reconnecting, and arms the timer.
Announced ==
  (Open /\ transport'.last = "socket close") =>
    /\ transport'.emitted = <<"disconnected", "reconnecting">>
    /\ transport'.reconnectTimer
    /\ transport'.shouldReconnect

\* An interface that was not closed has a socket that is connecting, open
\* or about to report its close, or the timer of its next attempt.
AttemptAhead ==
  (Open /\ transport.client # "none") =>
    \/ transport.client \in {"connecting", "open", "destroyed"}
    \/ transport.reconnectTimer

\* C29: every disconnect of a TcpInterface that was not closed emits
\* disconnected and then reconnecting and is followed by a new connection
\* attempt, after a failed attempt as after a lost connection, unless close
\* is called first; an error of the socket stops nothing.
C29_ReconnectsUntilClosed ==
  /\ [][Announced]_vars
  /\ []AttemptAhead
  /\ ((Open /\ transport.last = "socket close")
        ~> (transport.last = "connect" \/ ~Open))

\* An attempt is made while the timeout of the one before it, which
\* failed, is still to fire.
C29_Witness ==
  /\ transport.last = "connect"
  /\ Len(transport.timeouts) = 2
  /\ ~transport.isConnected


\* ------------------------------------------------------------------------
\* main: the sniffer at work, then shutdown
\* ------------------------------------------------------------------------

\* main has awaited start() of the server, if it made one.
InitShutdown ==
  /\ mode = "shutdown"
  /\ scenario = "none"
  /\ pos = 0
  /\ clock = 0
  /\ \E gui \in BOOLEAN :
       /\ sniffer = [NewSniffer(gui) EXCEPT !.server = SessionServer]
       /\ session = IF gui THEN listenCallback(start(NewSession))
                           ELSE NewSession
  /\ analyzer = NewAnalyzer
  /\ frames = <<>>
  /\ input = GroupFrame("Base")
  /\ result = <<>>
  /\ logger = NewLogger
  /\ observed = NoneObserved
  /\ client = NewClient
  /\ transport = NewTcpInterface
  /\ main = NewMain

\* port.on("data"): a frame arrives whole, until the port is closed.  The
\* raw log of the sniffer is the writes made on rawLogStream, ended or not.
PortData ==
  /\ ~main.exited
  /\ main.awaiting \in {"", "sniffer"}
  /\ pos < MaxBroadcasts
  /\ Handled(handleIncomingData(sniffer, input, clock))
  /\ pos' = pos + 1
  /\ session' = [session EXCEPT !.last = <<"publish">>]
  /\ UNCHANGED <<mode, scenario, clock, analyzer, input, result, logger,
                 observed, client, transport, main>>

\* Ctrl+C, SIGINT or SIGTERM: shutdown() runs up to await sniffer.close(),
\* which saves the report, ends the raw log stream and calls port.close.
Signal ==
  /\ ~main.exited
  /\ main.triggers < MaxTriggers
  /\ main' = shutdown(main)
  /\ result' = IF main.isShuttingDown THEN result
               ELSE <<generateReport(sniffer.grouper)>>
  /\ UNCHANGED <<mode, scenario, pos, clock, sniffer, analyzer, frames,
                 input, logger, observed, session, client, transport>>

\* The callback of port.close: sniffer.close() is done, and shutdown goes
\* on to webSocketServer.close() or to process.exit.
PortClosed ==
  /\ ~main.exited
  /\ main.awaiting = "sniffer"
  /\ main' = afterSnifferClose(main, sniffer.gui)
  /\ sniffer' = IF sniffer.gui
                  THEN [sniffer EXCEPT !.server = closeClients(@)]
                  ELSE sniffer
  /\ session' = IF sniffer.gui THEN closeServers(session) ELSE session
  /\ UNCHANGED <<mode, scenario, pos, clock, analyzer, frames, input,
                 result, logger, observed, client, transport>>

\* webSocketServer.close() is done: process.exit(0)
ServerClosed ==
  /\ ~main.exited
  /\ main.awaiting = "server"
  /\ session.resolved
  /\ main' = afterServerClose(main)
  /\ UNCHANGED <<mode, scenario, pos, clock, sniffer, analyzer, frames,
                 input, result, logger, observed, session, client,
                 transport>>

NextShutdown ==
  \/ PortData
  \/ Signal
  \/ PortClosed
  \/ \E c \in SessionSockets : SessionConnect(c)
  \/ \E c \in SessionSockets : ClientClose(c)
  \/ WssClosed
  \/ HttpClosed
  \/ ForceClose
  \/ ServerClosed

SpecShutdown == InitShutdown /\ [][NextShutdown]_vars

\* The steps of a shutdown that wait for no close to complete: the timers
\* the code has set, and the exit once the closes are done.
OnItsOwn == ForceClose \/ ServerClosed

\* C30: a shutdown that was triggered ends in the exit of the process even
\* if the closing of the port or of the server never completes: as long as
\* the process has not exited, a step that waits for no close (a timer
\* leading to the forced exit) is ahead.
C30_ShutdownEndsOnItsOwn ==
  (main.isShuttingDown /\ ~main.exited) => ENABLED <<OnItsOwn>>_vars


\* ------------------------------------------------------------------------
\* The reassembling loops on small buffers
\* ------------------------------------------------------------------------

\* The start byte, and size bytes that declare frames of 2, 3 and 4 bytes.
BufferBytes == {NASA_START_BYTE, 0, 1, 2}

RECURSIVE BuffersOf(_)
BuffersOf(n) ==
  IF n = 0 THEN {<<>>}
  ELSE LET shorter == BuffersOf(n - 1)
       IN  shorter \cup {Append(b, x) : b \in {c \in shorter : Len(c) = n - 1},
                                        x \in BufferBytes}

SmallBuffers == BuffersOf(MaxBuffer)

InitReassemble ==
  /\ mode \in {"cli", "analyzer"}
  /\ scenario = "none"
  /\ pos = 0
  /\ clock = 0
  /\ sniffer = NewSniffer(FALSE)
  /\ analyzer = NewAnalyzer
  /\ frames = <<>>
  /\ input \in SmallBuffers
  /\ result = <<>>
  /\ logger = NewLogger
  /\ observed = NoneObserved
  /\ session = NewSession
  /\ client = NewClient
  /\ transport = NewTcpInterface
  /\ main = NewMain

NextReassemble ==
  \/ \E t \in Times : FrameData(t)
  \/ \E t \in Times : FrameAnalyze(t)

SpecReassemble == InitReassemble /\ [][NextReassemble]_vars

\* The loop has run on the input.
Reassembled == pos = Len(input) /\ input # <<>>

\* What the loop left: the tail it keeps for the next chunk.
TailLeft ==
  IF mode = "analyzer" THEN analyzer.buffer ELSE sniffer.responseBuffer

\* The buffer starts with the start byte and holds less than the three
\* bytes of start and size, or less than the size it declares plus two.
Partial(buffer) ==
  /\ Len(buffer) > 0
  /\ buffer[1] = NASA_START_BYTE
  /\ \/ Len(buffer) < 3
     \/ Len(buffer) < Word(buffer[2], buffer[3]) + 2

\* C31: a buffer that starts with the start byte and holds less than three
\* bytes, or less than the frame it declares, gives no frame (no packet, no
\* error, nothing logged) and is returned unchanged as the tail.
C31_PartialFrameIsKept ==
  (Reassembled /\ Partial(input)) =>
    /\ frames = <<>>
    /\ TailLeft = input
    /\ analyzer.packets = <<>>
    /\ analyzer.errors = <<>>
    /\ sniffer.rawLog = <<>>
    /\ sniffer.grouper = NewGrouper

\* A buffer of start byte and size that declares four bytes and holds
\* three went through the loop of the sniffer.
C31_Witness ==
  /\ Reassembled
  /\ mode = "cli"
  /\ input = <<NASA_START_BYTE, 0, 2>>
  /\ TailLeft = input


IsSuffix(tail, buffer) ==
  /\ Len(tail) <= Len(buffer)
  /\ tail = SubSeq(buffer, Len(buffer) - Len(tail) + 1, Len(buffer))

\* The input without the tail left.
Consumed == SubSeq(input, 1, Len(input) - Len(TailLeft))

\* The pieces lie in the buffer one after the other, in their order and
\* without overlap, each at least one byte long.
RECURSIVE InOrder(_, _)
InOrder(buffer, pieces) ==
  \/ pieces = <<>>
  \/ /\ Len(pieces[1]) > 0
     /\ \E k \in 0..(Len(buffer) - Len(pieces[1])) :
          /\ SubSeq(buffer, k + 1, k + Len(pieces[1])) = pieces[1]
          /\ InOrder(SliceFrom(buffer, k + Len(pieces[1])), Tail(pieces))

RECURSIVE TotalLen(_)
TotalLen(pieces) ==
  IF pieces = <<>> THEN 0 ELSE Len(pieces[1]) + TotalLen(Tail(pieces))

RECURSIVE SkippedTotal(_)
SkippedTotal(errors) ==
  IF errors = <<>> THEN 0 ELSE errors[1].n + SkippedTotal(Tail(errors))

Skips ==
  SelectSeq(analyzer.errors,
            LAMBDA e : e.text = "Skipped bytes looking for start byte")

\* C32: the reassembling loops end on every buffer, and what they return
\* shows that each of their rounds took bytes off the front for good: the
\* tail is a suffix of the buffer, every frame cut and every skip reported
\* is at least one byte long, the frames lie in the consumed part one after
\* the other without overlap, and frames and skips together are no longer
\* than the consumed part.
C32_LoopEndsAndMovesForward ==
  /\ pos = 0 =>
       /\ Len(SnifferLoop(input, <<>>).responseBuffer) <= Len(input)
       /\ Len(analyzeBuffer(input, clock).remainingBuffer) <= Len(input)
  /\ Reassembled =>
       /\ IsSuffix(TailLeft, input)
       /\ InOrder(Consumed, frames)
       /\ \A i \in 1..Len(Skips) : Skips[i].n >= 1
       /\ TotalLen(frames) + SkippedTotal(Skips) <= Len(Consumed)
       /\ Len(frames) + Len(Skips) <= Len(Consumed)

\* Garbage, a frame of three bytes and the start of another went through
\* the loop of the analyzer: one skip, one frame, a tail of one byte.
C32_Witness ==
  /\ Reassembled
  /\ mode = "analyzer"
  /\ input = <<0, NASA_START_BYTE, 0, 1, NASA_START_BYTE>>
  /\ frames = <<<<NASA_START_BYTE, 0, 1>>>>
  /\ TailLeft = <<NASA_START_BYTE>>
  /\ Len(Skips) = 1


RECURSIVE CountsFrom(_, _)
CountsFrom(groups, i) ==
  IF i > Len(groups) THEN 0 ELSE groups[i].count + CountsFrom(groups, i + 1)

SignaturesObserved ==
  {GetSignature(observed.packets[i]) : i \in 1..Len(observed.packets)}

\* The groups of the state stay, in their places, and lose no count.
GroupsStay ==
  \A i \in 1..Len(Groups) :
    /\ i <= Len(Groups')
    /\ Groups'[i].signature = Groups[i].signature
    /\ Groups'[i].count >= Groups[i].count
    /\ Len(Groups'[i].allPackets) >= Len(Groups[i].allPackets)

\* C33: in every state of the packet analyser the total packet count is
\* the sum of the group counts, a group's count is the length of the list
\* of all its packets, there are as many groups as distinct signatures
\* observed since the last reset, and a step that is not a reset removes
\* no group and lowers no count.
C33_CountsAgree ==
  /\ [](GroupsMode =>
         /\ Total = CountsFrom(Groups, 1)
         /\ \A i \in 1..Len(Groups) :
              Groups[i].count = Len(Groups[i].allPackets)
         /\ Len(Groups) = Cardinality(SignaturesObserved))
  /\ [][(GroupsMode /\ observed'.call # "reset") => GroupsStay]_vars

\* Three packets were observed after a reset: two groups, one of them of
\* two packets.
C33_Witness ==
  /\ mode = "grouper"
  /\ observed.call = "observe"
  /\ Total = 3
  /\ pos = 3
  /\ Len(observed.packets) = 3
  /\ Len(Groups) = 2
  /\ \E i \in 1..2 : Len(Groups[i].allPackets) = 2


\* ------------------------------------------------------------------------
\* Frames that fail to decode, through the pipeline
\* ------------------------------------------------------------------------

ErrorScenarios ==
  {<<"Short", "BadEnd", "BadCrc", "Enum">>, <<"BadEnd", "Minimal">>,
   <<"Garbage", "BadCrc", "Short">>}

InitErrors ==
  /\ mode \in {"cli", "analyzer"}
  /\ scenario \in ErrorScenarios
  /\ pos = 0
  /\ clock = 0
  /\ sniffer = NewSniffer(FALSE)
  /\ analyzer = NewAnalyzer
  /\ frames = <<>>
  /\ input = <<>>
  /\ result = <<>>
  /\ logger = NewLogger
  /\ observed = NoneObserved
  /\ session = NewSession
  /\ client = NewClient
  /\ transport = NewTcpInterface
  /\ main = NewMain

NextErrors ==
  \/ \E n \in ChunkSizes, t \in Times : Data(n, t)
  \/ \E n \in ChunkSizes, t \in Times : Analyze(n, t)

SpecErrors == InitErrors /\ [][NextErrors]_vars

\* The size field of the frame itself: (data[1] << 8) | data[2], where a
\* byte past the end is undefined and counts as 0.
OwnSize(data) == Word(data[2], IF Len(data) >= 3 THEN data[3] ELSE 0)

\* The errors Packet.decode gave in the pipeline so far.
DecodeErrorsGiven ==
  IF mode = "analyzer"
    THEN {analyzer.errors[i].error :
            i \in {j \in 1..Len(analyzer.errors) :
                     IsDecodeError(analyzer.errors[j])}}
    ELSE {sniffer.rawLog[i].error :
            i \in {j \in 1..Len(sniffer.rawLog) :
                     sniffer.rawLog[j].kind = "ERROR"}}

\* C34: every frame the reassembling loop hands to Packet.decode starts
\* with the start byte and is as long as its own size field plus two, so
\* decode gives neither "Invalid start byte" nor "Size mismatch" there: the
\* errors it gives are "Unexpected size", "Invalid end byte" and CRC errors.
C34_OnlyThreeErrorsInPipeline ==
  /\ \A k \in 1..Len(frames) :
       /\ frames[k][1] = NASA_START_BYTE
       /\ Len(frames[k]) = OwnSize(frames[k]) + 2
  /\ DecodeErrorsGiven \subseteq
       {"Unexpected size", "Invalid end byte", "CRC error"}

\* The three errors were all given, and a frame was decoded after them.
C34_Witness ==
  /\ mode = "analyzer"
  /\ scenario = <<"Short", "BadEnd", "BadCrc", "Enum">>
  /\ DecodeErrorsGiven = {"Unexpected size", "Invalid end byte", "CRC error"}
  /\ Len(analyzer.packets) = 1


\* sniffer.close() has ended the raw log stream: shutdown calls it at once.
LogEnded == main.isShuttingDown

\* C35: once close has ended the log stream nothing more is written to it,
\* whatever data arrives before the port is closed: the writes made on the
\* stream stay what they were.
C35_NoWriteAfterEnd ==
  [][LogEnded => sniffer'.rawLog = sniffer.rawLog]_vars


\* C36: however many shutdown triggers arrive, and whenever, the shutdown
\* runs once: sniffer.close() and webSocketServer.close() are called at
\* most once each and the final report is saved at most once.
C36_ShutdownRunsOnce ==
  /\ main.snifferCloses = (IF main.isShuttingDown THEN 1 ELSE 0)
  /\ main.finalReports = main.snifferCloses
  /\ main.serverCloses <= 1
  /\ main.serverCloses = 1 => (sniffer.gui /\ main.snifferCloses = 1)

\* A third trigger came while the close of the server was awaited.
C36_Witness ==
  /\ main.triggers = 3
  /\ main.awaiting = "server"
  /\ main.serverCloses = 1
  /\ ~session.resolved


Emits(tcp, event) == \E i \in DOMAIN tcp.emitted : tcp.emitted[i] = event

\* C37: after close() no connection attempt is started and neither
\* reconnecting nor connected is emitted, whether close() found the
\* interface connected, waiting for the reconnect timer, or connecting.
C37_ClosedStaysClosed ==
  /\ [](~Open => /\ ~transport.reconnectTimer
                 /\ transport.client \notin {"connecting", "open"}
                 /\ ~transport.isConnected)
  /\ [][~Open => /\ transport'.last \notin {"connect", "connected"}
                 /\ ~Emits(transport', "reconnecting")
                 /\ ~Emits(transport', "connected")
                 /\ ~transport'.shouldReconnect]_vars

\* close() was called during a connection attempt, and the close event of
\* that socket has emitted disconnected alone.
C37_Witness ==
  /\ transport.closedWhile = "connecting"
  /\ transport.last = "socket close"
  /\ transport.emitted = <<"disconnected">>

\* C38: the connection timeout set by a call of connect() destroys only
\* the socket made by that call, and does nothing when that socket was
\* connected and the connection was lost afterwards.
C38_TimeoutHitsOwnSocket ==
  transport.last = "timeout" =>
    /\ transport.fired.destroyed => transport.fired.own
    /\ transport.fired.established => ~transport.fired.acted


\* ------------------------------------------------------------------------
\* The analysers given packets that differ in a part of the signature
\* ------------------------------------------------------------------------

NextSignatures ==
  \/ \E name \in SignatureNames, t \in Times : AddPacket(name, t)
  \/ \E name \in SignatureNames, t \in Times : LogPacket(name, t)

SpecSignatures == InitGroups /\ [][NextSignatures]_vars

\* C39: two observed packets that differ in the source, the destination,
\* the data type (any of its 16 values) or the ordered message numbers have
\* different signatures and are in different groups.
C39_SignatureTellsApart ==
  GroupsMode =>
    \A i, j \in 1..Len(observed.packets) :
      ~SameKey(observed.packets[i], observed.packets[j]) =>
        /\ GetSignature(observed.packets[i])
             # GetSignature(observed.packets[j])
        /\ ~InOneGroup(observed.packets[i], observed.packets[j])


\* ------------------------------------------------------------------------
\* The Logger given packets and then asked to export them
\* ------------------------------------------------------------------------

\* Base and Values are of one group, Source of another.
ExportNames == {"Base", "Values", "Source"}

InitExport ==
  /\ mode = "logger"
  /\ scenario = <<>>
  /\ pos = 0
  /\ clock = 0
  /\ sniffer = NewSniffer(FALSE)
  /\ analyzer = NewAnalyzer
  /\ frames = <<>>
  /\ input = <<>>
  /\ result = <<>>
  /\ logger = NewLogger
  /\ observed = NoneObserved
  /\ session = NewSession
  /\ client = NewClient
  /\ transport = NewTcpInterface
  /\ main = NewMain

\* logger.exportPackets().
ExportPackets ==
  /\ mode = "logger"
  /\ NoReportYet
  /\ \E sorted \in SortedByTimestamp(CollectPackets(logger.packetGroups, 1)) :
       result' = <<exportPackets(logger, sorted)>>
  /\ observed' = [observed EXCEPT !.call = "export"]
  /\ UNCHANGED <<mode, scenario, pos, clock, sniffer, analyzer, frames,
                 input, logger, session, client, transport, main>>

NextExport ==
  \/ \E name \in ExportNames, t \in Times : LogPacket(name, t)
  \/ ExportPackets

SpecExport == InitExport /\ [][NextExport]_vars

Exported == observed.call = "export"

\* C40: exportPackets writes each logged packet once, in the order in which
\* the packets were logged, packets of different groups with the same
\* timestamp included, and the total it writes is the number of packets
\* written.
C40_ExportKeepsLogOrder ==
  Exported =>
    /\ result[1].p = [i \in 1..Len(observed.packets) |->
                        ExportedPacket(observed.packets[i])]
    /\ result[1].tp = Len(result[1].p)

=============================================================================
